---- MODULE Spec2Model ----
(***************************************************************************)
(* promtui: the sampling store (Store.Sample / Store.Dump), the ring       *)
(* buffer it owns (newRingBuffer / add / get / Len), the rate deriver of   *)
(* the terminal UI (derive / computeRate) and the UI's event loop          *)
(* (Update / sleepCmd / sampleCmd).                                        *)
(*                                                                         *)
(* Six specifications share the state:                                     *)
(*   SpecRB  goroutines that call add, get and Len on one ring buffer of   *)
(*           ints directly, as TestRingBufferConcurrent does, and change   *)
(*           the slices get returns;                                       *)
(*   Spec    goroutines that call Sample and Dump on one Store;            *)
(*   SpecDump   one Dump on each of the buffer contents up to MaxSnaps     *)
(*           snapshots, from the point where it has read the buffer;       *)
(*   SpecDerive one derive on each of the series up to MaxObs long;        *)
(*   SpecFlatten one Sample on each of the response bodies that exercise   *)
(*           flatten, from the point where the response has arrived;       *)
(*   SpecUI  the event loop of the terminal UI after main's first Sample,  *)
(*           with its ticker and its commands (SpecUIFair: with fairness). *)
(* add, get and Len are split into their statements; Sample into TryLock,  *)
(* the fetch, the parse, the add and the return; Dump into RLock, the get, *)
(* RUnlock and the rest.  Names and filters are sequences of characters,   *)
(* float64 values exact fractions.                                         *)
(***************************************************************************)
EXTENDS Integers, Sequences, FiniteSets, TLC

\* ------------------------------------------------------------- bounds
\* largest capacity a buffer is constructed with (0 is included)
MaxSize == 2
\* number of add calls over one run
MaxAdds == 3
\* number of Sample calls that get to fetch over one run
MaxSamples == 2
\* largest reading of the wall clock
MaxTime == 1

\* largest number of snapshots in the buffer a Dump is tried on
MaxSnaps == 3
\* longest series derive is tried on
MaxObs == 3
\* number of key presses the terminal UI takes over one run
MaxKeys == 2

\* ---------------------------------------------------------- goroutines
Writers  == {"w1", "w2"}
Readers  == {"r1"}
Samplers == {"s1", "s2"}
Dumpers  == {"d1"}
Procs    == Writers \cup Readers \cup Samplers \cup Dumpers

NoOne == "none"
NoSlice == [arr |-> NoOne, len |-> 0]
NoRet   == [fetched |-> FALSE, err |-> "none"]
NoDump  == [err |-> "none", dump |-> <<>>]
NoDerived == <<>>

VARIABLES
  \* ringBuffer[T]
  buffer,    \* rb.buffer: 0..size-1 -> T
  size,      \* rb.size
  write,     \* rb.write
  count,     \* rb.count
  mu,        \* rb.mu: the goroutine inside the critical section, or NoOne
  \* Store
  muxW,      \* h.mux: the goroutine holding the write lock, or NoOne
  muxR,      \* h.mux: the goroutines holding a read lock
  \* goroutines
  pc,        \* the statement each goroutine is at
  arg,       \* add's parameter `value`
  idx,       \* get's loop variable i
  heap,      \* the arrays allocated by get's make([]T, 0, rb.count)
  result,    \* the slice a get returned: [arr, len]
  lenres,    \* the int a Len returned
  body,      \* Sample's resp.Body
  sret,      \* the latest return of a Sample: the caller and its (bool, error)
  dret,      \* what a Dump returned: [err, dump]
  filt,      \* Dump's parameter f
  now,       \* the last reading of time.Now()
  panicked,  \* a goroutine panicked: the process is gone
  \* history
  added,     \* every value passed to add, in the order the adds took rb.mu
  nextVal,   \* the next fresh value a writer adds
  gstart,    \* the adds that had returned when the goroutine's get was invoked;
             \* for a Sample, Len(added) when it took the sampling lock
  gend,      \* Len(added) when the goroutine's get or Len returned
  \* the terminal UI's model
  ots,       \* the series handed to derive
  derived,   \* what derive returned
  model,     \* the fields of the model struct, m.ticker with its channel
  prog       \* the tea.Program: pending messages and running commands

rbvars    == <<buffer, size, write, count, mu>>
muxvars   == <<muxW, muxR>>
getvars   == <<idx, heap, result, gstart, gend>>
storevars == <<body, sret, dret, filt, now>>
uivars    == <<ots, derived, model, prog>>
vars == <<buffer, size, write, count, mu, muxW, muxR, pc, arg, idx, heap,
          result, lenres, body, sret, dret, filt, now, panicked, added,
          nextVal, gstart, gend, ots, derived, model, prog>>

Min(a, b) == IF a < b THEN a ELSE b

\* the last n elements of s (all of s when it is shorter)
LastN(s, n) == SubSeq(s, Len(s) - Min(Len(s), n) + 1, Len(s))

\* ------------------------------------------------------------ ringBuffer

\* newRingBuffer: buffer = make([]T, size) holds zero values; write = count = 0
newRingBuffer(n, zero) ==
  [buffer |-> [i \in 0 .. n - 1 |-> zero], size |-> n, write |-> 0, count |-> 0]

\* rb.mu.Lock() returns once no goroutine is inside the critical section
CanLockNoMutex(p) == TRUE
CanLock(p) == mu = NoOne

\* the zero value of the buffer's element type: int for the buffer the
\* writers share, map[string]Observation (nil) for the Store's
ZeroOf(p) == IF p \in Samplers \cup Dumpers THEN {} ELSE 0

\* the statement after add / get returns to its caller
AfterAdd(p) == IF p \in Samplers THEN "s_return" ELSE "idle"
AfterGet(p) == IF p \in Dumpers THEN "d_runlock" ELSE "got"

\* add: rb.mu.Lock()
AddLock(p) ==
  /\ ~panicked /\ pc[p] = "add_lock" /\ CanLock(p)
  /\ mu' = p
  /\ added' = Append(added, arg[p])
  /\ pc' = [pc EXCEPT ![p] = "add_slot"]
  /\ UNCHANGED <<uivars, buffer, size, write, count, muxvars, arg, getvars, lenres,
                 storevars, panicked, nextVal>>

\* add: rb.buffer[rb.write] = value
AddSlotNewest(p) ==
  /\ ~panicked /\ pc[p] = "add_slot"
  /\ write \in DOMAIN buffer
  /\ buffer' = [buffer EXCEPT ![(write + size - 1) % size] = arg[p]]
  /\ pc' = [pc EXCEPT ![p] = "add_write"]
  /\ UNCHANGED <<uivars, size, write, count, mu, muxvars, arg, getvars, lenres,
                 storevars, panicked, added, nextVal>>

AddSlot(p) ==
  /\ ~panicked /\ pc[p] = "add_slot"
  /\ write \in DOMAIN buffer
  /\ buffer' = [buffer EXCEPT ![write] = arg[p]]
  /\ pc' = [pc EXCEPT ![p] = "add_write"]
  /\ UNCHANGED <<uivars, size, write, count, mu, muxvars, arg, getvars, lenres,
                 storevars, panicked, added, nextVal>>

\* add: rb.buffer[rb.write] with rb.write out of range: a run-time panic, which
\* no caller recovers
AddSlotPanic(p) ==
  /\ ~panicked /\ pc[p] = "add_slot"
  /\ write \notin DOMAIN buffer
  /\ panicked' = TRUE
  /\ UNCHANGED <<uivars, rbvars, muxvars, pc, arg, getvars, lenres, storevars, added,
                 nextVal>>

\* add: rb.write = (rb.write + 1) % rb.size
NextWriteNoWrap(w, n) == IF w + 1 < n THEN w + 1 ELSE w
NextWrite(w, n) == (w + 1) % n

AddWrite(p) ==
  /\ ~panicked /\ pc[p] = "add_write"
  /\ write' = NextWrite(write, size)
  /\ pc' = [pc EXCEPT ![p] = "add_count"]
  /\ UNCHANGED <<uivars, buffer, size, count, mu, muxvars, arg, getvars, lenres,
                 storevars, panicked, added, nextVal>>

\* add: if rb.count < rb.size { rb.count++ }; the deferred rb.mu.Unlock(); return
AddCountWraps(p) ==
  /\ ~panicked /\ pc[p] = "add_count"
  /\ count' = (count + 1) % (size + 1)
  /\ mu' = NoOne
  /\ pc' = [pc EXCEPT ![p] = AfterAdd(p)]
  /\ arg' = [arg EXCEPT ![p] = ZeroOf(p)]
  /\ UNCHANGED <<uivars, buffer, size, write, muxvars, getvars, lenres, storevars,
                 panicked, added, nextVal>>
AddCountUnbounded(p) ==
  /\ ~panicked /\ pc[p] = "add_count"
  /\ count' = count + 1
  /\ mu' = NoOne
  /\ pc' = [pc EXCEPT ![p] = AfterAdd(p)]
  /\ arg' = [arg EXCEPT ![p] = ZeroOf(p)]
  /\ UNCHANGED <<uivars, buffer, size, write, muxvars, getvars, lenres, storevars,
                 panicked, added, nextVal>>
AddCount(p) ==
  /\ ~panicked /\ pc[p] = "add_count"
  /\ count' = IF count < size THEN count + 1 ELSE count
  /\ mu' = NoOne
  /\ pc' = [pc EXCEPT ![p] = AfterAdd(p)]
  /\ arg' = [arg EXCEPT ![p] = ZeroOf(p)]
  /\ UNCHANGED <<uivars, buffer, size, write, muxvars, getvars, lenres, storevars,
                 panicked, added, nextVal>>

\* get: index := (rb.write + rb.size - rb.count + i) % rb.size
GetIndex(i) == (write + size - count + i) % size

\* get: rb.mu.Lock(); result := make([]T, 0, rb.count); i := 0
GetLock(p) ==
  /\ ~panicked /\ pc[p] = "get_lock" /\ CanLock(p)
  /\ mu' = p
  /\ heap' = [heap EXCEPT ![p] = <<>>]
  /\ idx' = [idx EXCEPT ![p] = 0]
  /\ pc' = [pc EXCEPT ![p] = "get_loop"]
  /\ UNCHANGED <<uivars, buffer, size, write, count, muxvars, arg, result, lenres,
                 storevars, panicked, added, nextVal, gstart, gend>>

\* get: one iteration of the loop: result = append(result, rb.buffer[index])
GetLoop(p) ==
  /\ ~panicked /\ pc[p] = "get_loop"
  /\ idx[p] < count
  /\ heap' = [heap EXCEPT ![p] = Append(@, buffer[GetIndex(idx[p])])]
  /\ idx' = [idx EXCEPT ![p] = @ + 1]
  /\ UNCHANGED <<uivars, rbvars, muxvars, pc, arg, result, lenres, storevars, panicked,
                 added, nextVal, gstart, gend>>

\* get: the slice returned: the array get allocated, with the elements appended
GetResultAlias(p) == [arr |-> "rb", len |-> count]
GetResult(p) == [arr |-> p, len |-> Len(heap[p])]

\* get: the loop ends; the deferred rb.mu.Unlock(); return result
GetReturn(p) ==
  /\ ~panicked /\ pc[p] = "get_loop"
  /\ ~(idx[p] < count)
  /\ mu' = NoOne
  /\ result' = [result EXCEPT ![p] = GetResult(p)]
  /\ gend' = [gend EXCEPT ![p] = Len(added)]
  /\ idx' = [idx EXCEPT ![p] = 0]
  /\ pc' = [pc EXCEPT ![p] = AfterGet(p)]
  /\ UNCHANGED <<uivars, buffer, size, write, count, muxvars, arg, heap, lenres,
                 storevars, panicked, added, nextVal, gstart>>

\* Len: rb.mu.Lock()
LenLock(p) ==
  /\ ~panicked /\ pc[p] = "len_lock" /\ CanLock(p)
  /\ mu' = p
  /\ pc' = [pc EXCEPT ![p] = "len_read"]
  /\ UNCHANGED <<uivars, buffer, size, write, count, muxvars, arg, getvars, lenres,
                 storevars, panicked, added, nextVal>>

\* Len: return rb.count, after the deferred rb.mu.Unlock()
LenReturn(p) ==
  /\ ~panicked /\ pc[p] = "len_read"
  /\ lenres' = [lenres EXCEPT ![p] = count]
  /\ gend' = [gend EXCEPT ![p] = Len(added)]
  /\ mu' = NoOne
  /\ pc' = [pc EXCEPT ![p] = "gotlen"]
  /\ UNCHANGED <<uivars, buffer, size, write, count, muxvars, arg, idx, heap, result,
                 gstart, storevars, panicked, added, nextVal>>

\* the number of add calls that have returned
Completed ==
  Len(added) - Cardinality({p \in Procs : pc[p] \in {"add_slot", "add_write", "add_count"}})

\* the elements of a slice, read through its array
SliceElems(s) ==
  IF s.arr = "rb" THEN [i \in 1 .. s.len |-> buffer[i - 1]]
  ELSE SubSeq(heap[s.arr], 1, s.len)

\* ----------------------------------------- goroutines using the buffer

\* a goroutine calls ringBuffer.add(value) with a fresh value
CallAdd(p) ==
  /\ ~panicked /\ p \in Writers /\ pc[p] = "idle"
  /\ nextVal <= MaxAdds
  /\ arg' = [arg EXCEPT ![p] = nextVal]
  /\ nextVal' = nextVal + 1
  /\ pc' = [pc EXCEPT ![p] = "add_lock"]
  /\ UNCHANGED <<uivars, rbvars, muxvars, getvars, lenres, storevars, panicked, added>>

\* a goroutine calls ringBuffer.get()
CallGet(p) ==
  /\ ~panicked /\ p \in Readers /\ pc[p] = "idle"
  /\ gstart' = [gstart EXCEPT ![p] = Completed]
  /\ pc' = [pc EXCEPT ![p] = "get_lock"]
  /\ UNCHANGED <<uivars, rbvars, muxvars, arg, idx, heap, result, gend, lenres,
                 storevars, panicked, added, nextVal>>

\* a goroutine calls ringBuffer.Len()
CallLen(p) ==
  /\ ~panicked /\ p \in Readers /\ pc[p] = "idle"
  /\ pc' = [pc EXCEPT ![p] = "len_lock"]
  /\ UNCHANGED <<uivars, rbvars, muxvars, arg, getvars, lenres, storevars, panicked,
                 added, nextVal>>

\* the caller drops what get or Len returned
Release(p) ==
  /\ ~panicked /\ p \in Readers /\ pc[p] \in {"got", "used", "gotlen"}
  /\ pc' = [pc EXCEPT ![p] = "idle"]
  /\ heap' = [heap EXCEPT ![p] = <<>>]
  /\ result' = [result EXCEPT ![p] = NoSlice]
  /\ lenres' = [lenres EXCEPT ![p] = 0]
  /\ gstart' = [gstart EXCEPT ![p] = 0]
  /\ gend' = [gend EXCEPT ![p] = 0]
  /\ UNCHANGED <<uivars, rbvars, muxvars, arg, idx, storevars, panicked, added, nextVal>>

\* s[i] = v on a slice s: a store into the array the slice points to
StoreElem(s, i, v) ==
  IF s.arr = "rb"
  THEN /\ buffer' = [buffer EXCEPT ![i - 1] = v]
       /\ UNCHANGED heap
  ELSE /\ heap' = [heap EXCEPT ![s.arr][i] = v]
       /\ UNCHANGED buffer

\* the caller overwrites an element of the slice get returned
Overwrite(p) ==
  /\ ~panicked /\ p \in Readers /\ pc[p] = "got"
  /\ \E i \in 1 .. result[p].len : StoreElem(result[p], i, 0 - 1)
  /\ pc' = [pc EXCEPT ![p] = "used"]
  /\ UNCHANGED <<uivars, size, write, count, mu, muxvars, arg, idx, result, gstart,
                 gend, lenres, storevars, panicked, added, nextVal>>

\* the caller reorders the slice: s[1], s[len] = s[len], s[1]
Reorder(p) ==
  /\ ~panicked /\ p \in Readers /\ pc[p] = "got"
  /\ result[p].len >= 2
  /\ LET s == result[p]
         e == SliceElems(s)
     IN IF s.arr = "rb"
        THEN /\ buffer' = [buffer EXCEPT ![0] = e[s.len], ![s.len - 1] = e[1]]
             /\ UNCHANGED heap
        ELSE /\ heap' = [heap EXCEPT ![s.arr][1] = e[s.len], ![s.arr][s.len] = e[1]]
             /\ UNCHANGED buffer
  /\ pc' = [pc EXCEPT ![p] = "used"]
  /\ UNCHANGED <<uivars, size, write, count, mu, muxvars, arg, idx, result, gstart,
                 gend, lenres, storevars, panicked, added, nextVal>>

\* the caller truncates the slice: s = s[:n]
Truncate(p) ==
  /\ ~panicked /\ p \in Readers /\ pc[p] = "got"
  /\ \E n \in 0 .. result[p].len - 1 :
       result' = [result EXCEPT ![p].len = n]
  /\ pc' = [pc EXCEPT ![p] = "used"]
  /\ UNCHANGED <<uivars, rbvars, muxvars, arg, idx, heap, gstart, gend, lenres,
                 storevars, panicked, added, nextVal>>

\* ----------------------------------------------------- payload flattener

\* a float64 as an exact fraction num/den (den > 0), or +Inf (den = 0)
RECURSIVE Gcd(_, _)
Gcd(a, b) == IF b = 0 THEN a ELSE Gcd(b, a % b)
Abs(a) == IF a < 0 THEN 0 - a ELSE a
Rat(n, d) ==
  LET g == Gcd(Abs(n), d)
  IN IF g = 0 THEN [num |-> 0, den |-> 1] ELSE [num |-> n \div g, den |-> d \div g]
Whole(n) == [num |-> n, den |-> 1]
PosInf == [num |-> 1, den |-> 0]
RatDiv(a, b) ==
  IF b.num < 0 THEN Rat((0 - a.num) * b.den, a.den * (0 - b.num))
  ELSE Rat(a.num * b.den, a.den * b.num)

\* math.Round(x*100) / 100: to the nearest hundredth, halves away from zero
Round100(x) ==
  IF x.den = 0 THEN x
  ELSE LET h == (2 * 100 * Abs(x.num) + x.den) \div (2 * x.den)
       IN Rat(IF x.num < 0 THEN 0 - h ELSE h, 100)

Digit(d) == <<"0", "1", "2", "3", "4", "5", "6", "7", "8", "9">>[d + 1]
RECURSIVE Digits(_)
Digits(n) == IF n < 10 THEN <<Digit(n)>> ELSE Digits(n \div 10) \o <<Digit(n % 10)>>

\* strconv.FormatFloat(x, 'f', -1, 64) of a multiple of 1/100, or of +Inf
FormatFloatFixed2(x) ==
  IF x.den = 0 THEN <<"+", "I", "n", "f">>
  ELSE LET h == (Abs(x.num) * 100) \div x.den
           f == h % 100
       IN (IF x.num < 0 THEN <<"-">> ELSE <<>>)
          \o Digits(h \div 100) \o <<".", Digit(f \div 10), Digit(f % 10)>>
FormatFloat(x) ==
  IF x.den = 0 THEN <<"+", "I", "n", "f">>
  ELSE LET h == (Abs(x.num) * 100) \div x.den
           f == h % 100
       IN (IF x.num < 0 THEN <<"-">> ELSE <<>>)
          \o Digits(h \div 100)
          \o (IF f = 0 THEN <<>>
              ELSE IF f % 10 = 0 THEN <<".", Digit(f \div 10)>>
              ELSE <<".", Digit(f \div 10), Digit(f % 10)>>)

\* fmt.Sprintf("%q", s): s in double quotes, with " and \ escaped
RECURSIVE Quoted(_)
Quoted(s) ==
  IF s = <<>> THEN <<>>
  ELSE (IF Head(s) \in {"\"", "\\"} THEN <<"\\", Head(s)>> ELSE <<Head(s)>>)
       \o Quoted(Tail(s))
Quote(s) == <<"\"">> \o Quoted(s) \o <<"\"">>

\* strings.Join(labelParts, ", ") with each part name=%q(value)
RECURSIVE JoinLabels(_)
JoinLabels(labels) ==
  IF labels = <<>> THEN <<>>
  ELSE Head(labels).name \o <<"=">> \o Quote(Head(labels).value)
       \o (IF Tail(labels) = <<>> THEN <<>> ELSE <<",", " ">> \o JoinLabels(Tail(labels)))

\* flatName: name, or name {k1="v1", k2="v2"}
flatNameAlwaysBraces(name, labels) ==
  name \o <<" ", "{">> \o JoinLabels(labels) \o <<"}">>
flatName(name, labels) ==
  IF Len(labels) = 0 THEN name
  ELSE name \o <<" ", "{">> \o JoinLabels(labels) \o <<"}">>

NewObservation(name, kind, ts, value) ==
  [Name |-> name, Kind |-> kind, Time |-> ts, Value |-> value]

\* obs[name] = o on a map kept as the set of its values, keyed by Name
MapPutKeepFirst(obs, o) ==
  IF \E x \in obs : x.Name = o.Name THEN obs ELSE obs \cup {o}
MapPut(obs, o) == {x \in obs : x.Name # o.Name} \cup {o}
MapHas(obs, name) == \E x \in obs : x.Name = name
MapGet(obs, name) == CHOOSE x \in obs : x.Name = name

\* flatten: the bucket loop of one histogram metric
RECURSIVE FlattenBuckets(_, _, _, _, _)
FlattenBuckets(obs, mfName, mLabels, bs, ts) ==
  IF bs = <<>> THEN obs
  ELSE LET b == Head(bs)
           bLabels == Append(mLabels,
                        [name |-> <<"l", "e">>, value |-> FormatFloat(Round100(b.ub))])
           name == flatName(mfName \o <<"_", "b", "u", "c", "k", "e", "t">>, bLabels)
           value == IF b.cumf.num <= 0 THEN Whole(b.cum) ELSE b.cumf
       IN FlattenBuckets(MapPut(obs, NewObservation(name, "HistogramBucket", ts, value)),
                         mfName, mLabels, Tail(bs), ts)

SumName(mfName) == mfName \o <<"_", "s", "u", "m">>
CountName(mfName) == mfName \o <<"_", "c", "o", "u", "n", "t">>
AvgName(mfName) == mfName \o <<"_", "a", "v", "g">>

\* flatten: the body of the loop over a family's metrics (the switch on mType)
FlattenMetricUntypedAsGauge(obs, mf, m, ts) ==
  CASE mf.type \in {"HISTOGRAM", "GAUGE_HISTOGRAM"} ->
         LET o1 == FlattenBuckets(obs, mf.name, m.label, m.bucket, ts)
             o2 == MapPut(o1, NewObservation(flatName(SumName(mf.name), m.label),
                                             "HistogramSum", ts, m.sum))
             sampleCount == IF m.cntf.num <= 0 THEN Whole(m.cnt) ELSE m.cntf
             o3 == MapPut(o2, NewObservation(flatName(CountName(mf.name), m.label),
                                             "HistogramCount", ts, sampleCount))
         IN IF sampleCount.num > 0
            THEN MapPut(o3, NewObservation(flatName(AvgName(mf.name), m.label),
                                           "HistogramAvg", ts, RatDiv(m.sum, sampleCount)))
            ELSE o3
    [] mf.type = "COUNTER" ->
         MapPut(obs, NewObservation(flatName(mf.name, m.label), "Counter", ts, m.value))
    [] mf.type = "GAUGE" ->
         MapPut(obs, NewObservation(flatName(mf.name, m.label), "Gauge", ts, m.value))
    [] mf.type = "SUMMARY" ->
         LET o1 == MapPut(obs, NewObservation(flatName(SumName(mf.name), m.label),
                                              "SummarySum", ts, m.sum))
         IN MapPut(o1, NewObservation(flatName(CountName(mf.name), m.label),
                                      "SummaryCount", ts, Whole(m.cnt)))
    [] OTHER ->
         MapPut(obs, NewObservation(flatName(mf.name, m.label), "Gauge", ts, m.value))
FlattenMetricAvgAlways(obs, mf, m, ts) ==
  CASE mf.type \in {"HISTOGRAM", "GAUGE_HISTOGRAM"} ->
         LET o1 == FlattenBuckets(obs, mf.name, m.label, m.bucket, ts)
             o2 == MapPut(o1, NewObservation(flatName(SumName(mf.name), m.label),
                                             "HistogramSum", ts, m.sum))
             sampleCount == IF m.cntf.num <= 0 THEN Whole(m.cnt) ELSE m.cntf
             o3 == MapPut(o2, NewObservation(flatName(CountName(mf.name), m.label),
                                             "HistogramCount", ts, sampleCount))
         IN IF TRUE
            THEN MapPut(o3, NewObservation(flatName(AvgName(mf.name), m.label),
                                           "HistogramAvg", ts, RatDiv(m.sum, sampleCount)))
            ELSE o3
    [] mf.type = "COUNTER" ->
         MapPut(obs, NewObservation(flatName(mf.name, m.label), "Counter", ts, m.value))
    [] mf.type = "GAUGE" ->
         MapPut(obs, NewObservation(flatName(mf.name, m.label), "Gauge", ts, m.value))
    [] mf.type = "SUMMARY" ->
         LET o1 == MapPut(obs, NewObservation(flatName(SumName(mf.name), m.label),
                                              "SummarySum", ts, m.sum))
         IN MapPut(o1, NewObservation(flatName(CountName(mf.name), m.label),
                                      "SummaryCount", ts, Whole(m.cnt)))
    [] OTHER -> obs
FlattenMetric(obs, mf, m, ts) ==
  CASE mf.type \in {"HISTOGRAM", "GAUGE_HISTOGRAM"} ->
         LET o1 == FlattenBuckets(obs, mf.name, m.label, m.bucket, ts)
             o2 == MapPut(o1, NewObservation(flatName(SumName(mf.name), m.label),
                                             "HistogramSum", ts, m.sum))
             sampleCount == IF m.cntf.num <= 0 THEN Whole(m.cnt) ELSE m.cntf
             o3 == MapPut(o2, NewObservation(flatName(CountName(mf.name), m.label),
                                             "HistogramCount", ts, sampleCount))
         IN IF sampleCount.num > 0
            THEN MapPut(o3, NewObservation(flatName(AvgName(mf.name), m.label),
                                           "HistogramAvg", ts, RatDiv(m.sum, sampleCount)))
            ELSE o3
    [] mf.type = "COUNTER" ->
         MapPut(obs, NewObservation(flatName(mf.name, m.label), "Counter", ts, m.value))
    [] mf.type = "GAUGE" ->
         MapPut(obs, NewObservation(flatName(mf.name, m.label), "Gauge", ts, m.value))
    [] mf.type = "SUMMARY" ->
         LET o1 == MapPut(obs, NewObservation(flatName(SumName(mf.name), m.label),
                                              "SummarySum", ts, m.sum))
         IN MapPut(o1, NewObservation(flatName(CountName(mf.name), m.label),
                                      "SummaryCount", ts, Whole(m.cnt)))
    [] OTHER -> obs

RECURSIVE FlattenMetrics(_, _, _, _)
FlattenMetrics(obs, mf, ms, ts) ==
  IF ms = <<>> THEN obs
  ELSE FlattenMetrics(FlattenMetric(obs, mf, Head(ms), ts), mf, Tail(ms), ts)

RECURSIVE FlattenFamilies(_, _, _)
FlattenFamilies(obs, mfs, ts) ==
  IF mfs = <<>> THEN obs
  ELSE FlattenFamilies(FlattenMetrics(obs, Head(mfs), Head(mfs).metric, ts), Tail(mfs), ts)

\* flatten(mfs, ts)
flatten(mfs, ts) == FlattenFamilies({}, mfs, ts)

\* newObservationSet: the decode loop. `in` is what the decoder yields, family
\* by family: a family, or a decode error; the end of `in` is io.EOF
RECURSIVE DecodeAllKeepPrefix(_, _)
DecodeAllKeepPrefix(in, mfs) ==
  IF in = <<>> THEN [err |-> "nil", mfs |-> mfs]
  ELSE IF ~Head(in).ok THEN [err |-> "nil", mfs |-> mfs]
  ELSE DecodeAllKeepPrefix(Tail(in), Append(mfs, Head(in).mf))

RECURSIVE DecodeAll(_, _)
DecodeAll(in, mfs) ==
  IF in = <<>> THEN [err |-> "nil", mfs |-> mfs]
  ELSE IF ~Head(in).ok THEN [err |-> "decode", mfs |-> <<>>]
  ELSE DecodeAll(Tail(in), Append(mfs, Head(in).mf))

newObservationSet(in, ts) ==
  LET d == DecodeAll(in, <<>>)
  IN IF d.err # "nil" THEN [err |-> d.err, obs |-> {}]
     ELSE [err |-> "nil", obs |-> flatten(d.mfs, ts)]

\* ------------------------------------------------- filter, sort, series

\* the characters names and filters are made of, in byte order
Alphabet ==
  <<" ", "\"", "+", ",", "-", ".",
    "0", "1", "2", "3", "4", "5", "6", "7", "8", "9", "=",
    "A", "B", "C", "D", "E", "F", "G", "H", "I", "J", "K", "L", "M",
    "N", "O", "P", "Q", "R", "S", "T", "U", "V", "W", "X", "Y", "Z",
    "\\", "_",
    "a", "b", "c", "d", "e", "f", "g", "h", "i", "j", "k", "l", "m",
    "n", "o", "p", "q", "r", "s", "t", "u", "v", "w", "x", "y", "z",
    "{", "}">>
Code(c) == CHOOSE i \in 1 .. Len(Alphabet) : Alphabet[i] = c
IsDigit(c) == c \in {"0", "1", "2", "3", "4", "5", "6", "7", "8", "9"}
IsUpper(c) == Code(c) >= Code("A") /\ Code(c) <= Code("Z")

\* strings.ToLower
ToLower(s) ==
  [i \in 1 .. Len(s) |->
     IF IsUpper(s[i]) THEN Alphabet[Code(s[i]) - Code("A") + Code("a")] ELSE s[i]]

\* strings.Contains
Contains(s, sub) ==
  \E i \in 0 .. Len(s) - Len(sub) : SubSeq(s, i + 1, i + Len(sub)) = sub

\* bytewise s < t
RECURSIVE StrLess(_, _)
StrLess(s, t) ==
  IF t = <<>> THEN FALSE
  ELSE IF s = <<>> THEN TRUE
  ELSE IF Head(s) # Head(t) THEN Code(Head(s)) < Code(Head(t))
  ELSE StrLess(Tail(s), Tail(t))

\* the index of the first character of s at or after i that fails `zeros ?
\* is '0' : is a digit`
RECURSIVE SkipZeros(_, _)
SkipZeros(s, i) == IF i <= Len(s) /\ s[i] = "0" THEN SkipZeros(s, i + 1) ELSE i
RECURSIVE SkipDigits(_, _)
SkipDigits(s, i) == IF i <= Len(s) /\ IsDigit(s[i]) THEN SkipDigits(s, i + 1) ELSE i

\* natural.Less: runs of digits compare by value, other characters bytewise
RECURSIVE NaturalLessFrom(_, _, _, _)
NaturalLessFrom(s, t, i, j) ==
  IF ~(i <= Len(s) /\ j <= Len(t)) THEN Len(s) < Len(t)
  ELSE LET d1 == IsDigit(s[i])
           d2 == IsDigit(t[j])
       IN IF d1 # d2 THEN d1
          ELSE IF ~d1
          THEN IF s[i] # t[j] THEN Code(s[i]) < Code(t[j])
               ELSE NaturalLessFrom(s, t, i + 1, j + 1)
          ELSE LET z1 == SkipZeros(s, i)
                   z2 == SkipZeros(t, j)
                   e1 == SkipDigits(s, z1)
                   e2 == SkipDigits(t, z2)
                   n1 == SubSeq(s, z1, e1 - 1)
                   n2 == SubSeq(t, z2, e2 - 1)
               IN IF Len(n1) # Len(n2) THEN Len(n1) < Len(n2)
                  ELSE IF n1 # n2 THEN StrLess(n1, n2)
                  ELSE IF z1 - i # z2 - j THEN z1 - i < z2 - j
                  ELSE NaturalLessFrom(s, t, e1, e2)
NaturalLess(s, t) == NaturalLessFrom(s, t, 1, 1)

\* sort.Sort(natural.StringSlice(names)) of a set of distinct names
RECURSIVE SortNames(_)
SortNames(names) ==
  IF names = {} THEN <<>>
  ELSE LET m == CHOOSE x \in names : \A y \in names \ {x} : NaturalLess(x, y)
       IN <<m>> \o SortNames(names \ {m})

\* sort.Strings(names): bytewise order
RECURSIVE SortNamesBytewise(_)
SortNamesBytewise(names) ==
  IF names = {} THEN <<>>
  ELSE LET m == CHOOSE x \in names : \A y \in names \ {x} : StrLess(x, y)
       IN <<m>> \o SortNamesBytewise(names \ {m})

\* filterAndSort
filterAndSortBytewise(obs, f) ==
  SortNamesBytewise({o.Name : o \in {x \in obs :
               f = <<>> \/ Contains(ToLower(x.Name), ToLower(f))}})
filterAndSortCaseSensitive(obs, f) ==
  SortNames({o.Name : o \in {x \in obs : f = <<>> \/ Contains(x.Name, f)}})
filterAndSort(obs, f) ==
  SortNames({o.Name : o \in {x \in obs :
               f = <<>> \/ Contains(ToLower(x.Name), ToLower(f))}})

\* getSeries: from the newest element of data back to the first one that
\* lacks the name
RECURSIVE SeriesFromSkipGaps(_, _, _, _)
SeriesFromSkipGaps(data, name, i, series) ==
  IF i < 1 THEN series
  ELSE IF ~MapHas(data[i], name) THEN SeriesFromSkipGaps(data, name, i - 1, series)
  ELSE SeriesFromSkipGaps(data, name, i - 1, Append(series, MapGet(data[i], name)))
RECURSIVE SeriesFromOldestFirst(_, _, _, _)
SeriesFromOldestFirst(data, name, i, series) ==
  IF i < 1 THEN series
  ELSE IF ~MapHas(data[i], name) THEN series
  ELSE SeriesFromOldestFirst(data, name, i - 1, <<MapGet(data[i], name)>> \o series)
RECURSIVE SeriesFrom(_, _, _, _)
SeriesFrom(data, name, i, series) ==
  IF i < 1 THEN series
  ELSE IF ~MapHas(data[i], name) THEN series
  ELSE SeriesFrom(data, name, i - 1, Append(series, MapGet(data[i], name)))
getSeries(data, name) == SeriesFrom(data, name, Len(data), <<>>)

\* Dump, from data on: the series of each name, empty ones left out
RECURSIVE DumpNames(_, _, _)
DumpNames(data, names, dump) ==
  IF names = <<>> THEN dump
  ELSE LET values == getSeries(data, Head(names))
       IN DumpNames(data, Tail(names),
                    IF Len(values) = 0 THEN dump ELSE Append(dump, values))
DumpOf(data, f) == DumpNames(data, filterAndSort(data[Len(data)], f), <<>>)

\* Dump, after h.mux.RUnlock(): the "no data points" error for no data,
\* otherwise the dump and a nil error
DumpResultNoCheck(data, f) ==
  IF Len(data) = 0 THEN [err |-> "nil", dump |-> <<>>]
  ELSE [err |-> "nil", dump |-> DumpOf(data, f)]
DumpResultEmptyIsError(data, f) ==
  IF Len(data) = 0 \/ DumpOf(data, f) = <<>>
  THEN [err |-> "no data points", dump |-> <<>>]
  ELSE [err |-> "nil", dump |-> DumpOf(data, f)]
DumpResult(data, f) ==
  IF Len(data) = 0 THEN [err |-> "no data points", dump |-> <<>>]
  ELSE [err |-> "nil", dump |-> DumpOf(data, f)]

\* the filters Dump is called with
Filters == { <<>>, <<"_", "S">> }

\* ----------------------------------------------------------- rate deriver

\* time.Second, in the unit the clock is read in (a quarter of a second, so
\* that time.Second.Nanoseconds() / dur.Nanoseconds() is TicksPerSecond \div dur)
TicksPerSecond == 4

RatSub(a, b) == Rat(a.num * b.den - b.num * a.den, a.den * b.den)
RatMul(a, b) == Rat(a.num * b.num, a.den * b.den)

\* int64 division, which truncates toward zero
Quot(a, b) ==
  IF (a < 0) = (b < 0) THEN Abs(a) \div Abs(b) ELSE 0 - (Abs(a) \div Abs(b))

\* rateName: _per_second_rate goes after the part of name before its first
\* space
PerSecondRate == <<"_", "p", "e", "r", "_", "s", "e", "c", "o", "n", "d", "_",
                   "r", "a", "t", "e">>
RECURSIVE rateName(_)
rateName(name) ==
  IF name = <<>> \/ Head(name) = " " THEN PerSecondRate \o name
  ELSE <<Head(name)>> \o rateName(Tail(name))

\* computeRate(c, p): the rate observation, or the run-time panic of the
\* integer division by a zero dur.Nanoseconds()
computeRateSwapped(c, p) ==
  LET dur == c.Time - p.Time
      delta == RatSub(p.Value, c.Value)
  IN IF dur < TicksPerSecond /\ dur = 0 THEN [panic |-> TRUE]
     ELSE [panic |-> FALSE,
           obs |-> NewObservation(rateName(c.Name), "CounterRate", c.Time,
                     IF dur < TicksPerSecond
                     THEN RatMul(delta, Whole(Quot(TicksPerSecond, dur)))
                     ELSE RatDiv(delta, Rat(dur, TicksPerSecond)))]
computeRate(c, p) ==
  LET dur == c.Time - p.Time
      delta == RatSub(c.Value, p.Value)
  IN IF dur < TicksPerSecond /\ dur = 0 THEN [panic |-> TRUE]
     ELSE [panic |-> FALSE,
           obs |-> NewObservation(rateName(c.Name), "CounterRate", c.Time,
                     IF dur < TicksPerSecond
                     THEN RatMul(delta, Whole(Quot(TicksPerSecond, dur)))
                     ELSE RatDiv(delta, Rat(dur, TicksPerSecond)))]

\* derive that takes the rates of a series of any kind
deriveAnyKind(s) ==
  IF Len(s) = 0 THEN [panic |-> TRUE]
  ELSE IF Len(s) > 1
  THEN LET rs == [i \in 1 .. Len(s) - 1 |-> computeRate(s[i], s[i + 1])]
       IN IF \E i \in 1 .. Len(s) - 1 : rs[i].panic THEN [panic |-> TRUE]
          ELSE [panic |-> FALSE,
                derived |-> <<s, [i \in 1 .. Len(s) - 1 |-> rs[i].obs]>>]
  ELSE [panic |-> FALSE, derived |-> <<s>>]

\* derive(ots): the raw series and, for a counter or a histogram count of
\* more than one observation, its rates; or the panic of ots[0] on an empty
\* series or of a computeRate
derive(s) ==
  IF Len(s) = 0 THEN [panic |-> TRUE]
  ELSE IF s[1].Kind \in {"Counter", "HistogramCount"} /\ Len(s) > 1
  THEN LET rs == [i \in 1 .. Len(s) - 1 |-> computeRate(s[i], s[i + 1])]
       IN IF \E i \in 1 .. Len(s) - 1 : rs[i].panic THEN [panic |-> TRUE]
          ELSE [panic |-> FALSE,
                derived |-> <<s, [i \in 1 .. Len(s) - 1 |-> rs[i].obs]>>]
  ELSE [panic |-> FALSE, derived |-> <<s>>]

\* metricsView: derived := m.derive(series)
DeriveReturn ==
  /\ ~panicked /\ derived = NoDerived
  /\ ~derive(ots).panic
  /\ derived' = derive(ots).derived
  /\ UNCHANGED <<rbvars, muxvars, pc, arg, getvars, lenres, storevars, panicked,
                 added, nextVal, ots, model, prog>>

\* metricsView: m.derive(series) panics
DerivePanic ==
  /\ ~panicked /\ derived = NoDerived
  /\ derive(ots).panic
  /\ panicked' = TRUE
  /\ UNCHANGED <<rbvars, muxvars, pc, arg, getvars, lenres, storevars, added,
                 nextVal, uivars>>

\* ---------------------------------------------------------------- Store

\* what the endpoint may answer with status 200
NoMetric == [label |-> <<>>, value |-> Whole(0), sum |-> Whole(0), cnt |-> 0,
             cntf |-> Whole(0), bucket |-> <<>>]
Family(name, type, ms) == [ok |-> TRUE, mf |-> [name |-> name, type |-> type, metric |-> ms]]
Malformed == [ok |-> FALSE]
FamA == Family(<<"a">>, "COUNTER", <<[NoMetric EXCEPT !.value = Whole(1)]>>)
FamB == Family(<<"b">>, "GAUGE", <<[NoMetric EXCEPT !.value = Whole(2)]>>)
FamC == Family(<<"c">>, "COUNTER", <<[NoMetric EXCEPT !.value = Whole(3)]>>)
FamH == Family(<<"h">>, "HISTOGRAM",
               <<[NoMetric EXCEPT !.sum = Whole(3), !.cnt = 2,
                    !.bucket = <<[ub |-> Rat(1, 2), cum |-> 1, cumf |-> Whole(0)],
                                 [ub |-> PosInf, cum |-> 2, cumf |-> Whole(0)]>>]>>)
FamS == Family(<<"s">>, "SUMMARY", <<[NoMetric EXCEPT !.sum = Whole(5), !.cnt = 2]>>)
FamU == Family(<<"u">>, "UNTYPED", <<[NoMetric EXCEPT !.value = Whole(4)]>>)
Payloads == { <<FamA, FamB, FamU>>, <<FamH, FamS>>,
              <<FamC, Malformed>>, <<Malformed>> }

\* the payloads flatten is tried on
RequestsTotal == <<"r", "e", "q", "u", "e", "s", "t", "s", "_", "t", "o", "t", "a", "l">>
Requests == <<"r", "e", "q", "u", "e", "s", "t", "s">>
FamRequestsTotal == Family(RequestsTotal, "COUNTER", <<[NoMetric EXCEPT !.value = Whole(5)]>>)
FamRequests ==
  Family(Requests, "HISTOGRAM",
         <<[NoMetric EXCEPT !.sum = Rat(123, 10), !.cnt = 7,
              !.bucket = <<[ub |-> Rat(1, 2), cum |-> 2, cumf |-> Whole(0)],
                           [ub |-> Whole(1), cum |-> 5, cumf |-> Whole(0)],
                           [ub |-> PosInf, cum |-> 7, cumf |-> Whole(0)]>>]>>)
FamX == Family(<<"x">>, "HISTOGRAM", <<[NoMetric EXCEPT !.sum = Whole(3), !.cnt = 2]>>)
FamXSum == Family(SumName(<<"x">>), "COUNTER", <<[NoMetric EXCEPT !.value = Whole(9)]>>)
LabelLV == <<[name |-> <<"l">>, value |-> <<"v">>]>>
FamG == Family(<<"g">>, "GAUGE", <<[NoMetric EXCEPT !.label = LabelLV, !.value = Whole(1)],
                                  [NoMetric EXCEPT !.label = LabelLV, !.value = Whole(2)]>>)
\* fractional counts set; no count at all; negative fractional counts
FamHF ==
  Family(<<"f">>, "GAUGE_HISTOGRAM",
         <<[NoMetric EXCEPT !.sum = Whole(5), !.cnt = 9, !.cntf = Rat(5, 2),
              !.bucket = <<[ub |-> Rat(1, 4), cum |-> 4, cumf |-> Rat(3, 2)],
                           [ub |-> PosInf, cum |-> 9, cumf |-> Whole(0)]>>]>>)
FamHZ ==
  Family(<<"z">>, "HISTOGRAM",
         <<[NoMetric EXCEPT !.bucket = <<[ub |-> Whole(1), cum |-> 0, cumf |-> Whole(0)]>>]>>)
FamHN ==
  Family(<<"n">>, "HISTOGRAM",
         <<[NoMetric EXCEPT !.sum = Whole(6), !.cnt = 3, !.cntf = Whole(0 - 1),
              !.bucket = <<[ub |-> Whole(2), cum |-> 3, cumf |-> Whole(0 - 1)]>>]>>)
FlatPayloads ==
  { <<>>, <<FamRequestsTotal>>, <<FamA>>, <<FamRequests>>,
    <<FamU>>, <<FamU, FamRequestsTotal>>, <<FamRequestsTotal, FamU, FamB>>,
    <<FamX>>, <<FamXSum>>, <<FamX, FamXSum>>, <<FamXSum, FamX>>, <<FamG>>,
    <<FamHF>>, <<FamHZ>>, <<FamHN>>, <<FamS>>,
    <<FamRequestsTotal, Malformed>>, <<Malformed>> }

RetSkip == [fetched |-> FALSE, err |-> "nil"]
RetTrue == [fetched |-> TRUE, err |-> "nil"]
RetErr(e) == [fetched |-> FALSE, err |-> e]
FetchErrors == {"create request", "do request", "unexpected status"}

\* h.mux.TryLock(): succeeds when the lock is held neither for writing nor
\* for reading
TryLockAlways == TRUE
TryLock == muxW = NoOne /\ muxR = {}

\* h.mux.RLock() returns once the lock is not held for writing
CanRLock == muxW = NoOne

\* Sample: if !h.mux.TryLock() { return false, nil }
SampleSkip(p) ==
  /\ ~panicked /\ p \in Samplers /\ pc[p] = "idle"
  /\ ~TryLock
  /\ sret' = [who |-> p, val |-> RetSkip]
  /\ UNCHANGED <<uivars, rbvars, muxvars, pc, arg, getvars, lenres, body, dret, filt, now,
                 panicked, added, nextVal>>

\* Sample: h.mux.TryLock() succeeded; defer h.mux.Unlock()
SampleTryLockOK(p) ==
  /\ ~panicked /\ p \in Samplers /\ pc[p] = "idle"
  /\ Len(added) < MaxSamples
  /\ TryLock
  /\ muxW' = p
  /\ sret' = [who |-> NoOne, val |-> NoRet]
  /\ gstart' = [gstart EXCEPT ![p] = Len(added)]
  /\ pc' = [pc EXCEPT ![p] = "s_fetch"]
  /\ UNCHANGED <<uivars, rbvars, muxR, arg, idx, heap, result, gend, lenres, body,
                 dret, filt, now, panicked, added, nextVal>>

\* Sample returns (false, err): the deferred h.mux.Unlock() runs
ReturnErrKeepsLock(p, e) ==
  /\ sret' = [who |-> p, val |-> RetErr(e)]
  /\ pc' = [pc EXCEPT ![p] = "idle"]
  /\ body' = [body EXCEPT ![p] = <<>>]
  /\ gstart' = [gstart EXCEPT ![p] = 0]
  /\ UNCHANGED <<uivars, rbvars, muxvars, arg, idx, heap, result, gend, lenres, dret, filt,
                 now, panicked, added, nextVal>>

ReturnErr(p, e) ==
  /\ muxW' = NoOne
  /\ sret' = [who |-> p, val |-> RetErr(e)]
  /\ pc' = [pc EXCEPT ![p] = "idle"]
  /\ body' = [body EXCEPT ![p] = <<>>]
  /\ gstart' = [gstart EXCEPT ![p] = 0]
  /\ UNCHANGED <<uivars, rbvars, muxR, arg, idx, heap, result, gend, lenres, dret, filt,
                 now, panicked, added, nextVal>>

\* Sample: http.NewRequest fails
SampleRequestErr(p) ==
  /\ ~panicked /\ pc[p] = "s_fetch"
  /\ ReturnErr(p, "create request")

\* Sample: http.DefaultClient.Do fails
SampleDoErr(p) ==
  /\ ~panicked /\ pc[p] = "s_fetch"
  /\ ReturnErr(p, "do request")

\* Sample: resp.StatusCode != http.StatusOK
SampleBadStatus(p) ==
  /\ ~panicked /\ pc[p] = "s_fetch"
  /\ ReturnErr(p, "unexpected status")

\* Sample: the response has status 200 and some body
SampleResponse(p) ==
  /\ ~panicked /\ pc[p] = "s_fetch"
  /\ \E in \in Payloads : body' = [body EXCEPT ![p] = in]
  /\ pc' = [pc EXCEPT ![p] = "s_parse"]
  /\ UNCHANGED <<uivars, rbvars, muxvars, arg, getvars, lenres, sret, dret, filt, now,
                 panicked, added, nextVal>>

\* Sample: newObservationSet reads the clock (ts := time.Now(), which never
\* runs backwards) and fails
SampleParseErr(p) ==
  /\ ~panicked /\ pc[p] = "s_parse"
  /\ \E t \in now .. MaxTime :
       /\ newObservationSet(body[p], t).err # "nil"
       /\ now' = t
  /\ muxW' = NoOne
  /\ sret' = [who |-> p, val |-> RetErr("parse response")]
  /\ pc' = [pc EXCEPT ![p] = "idle"]
  /\ body' = [body EXCEPT ![p] = <<>>]
  /\ gstart' = [gstart EXCEPT ![p] = 0]
  /\ UNCHANGED <<uivars, rbvars, muxR, arg, idx, heap, result, gend, lenres, dret, filt,
                 panicked, added, nextVal>>

\* Sample: newObservationSet reads the clock and succeeds; h.rb.add(obs) is
\* called. resp.Body stays open until Sample returns
SampleParseOK(p) ==
  /\ ~panicked /\ pc[p] = "s_parse"
  /\ \E t \in now .. MaxTime :
       LET r == newObservationSet(body[p], t)
       IN /\ r.err = "nil"
          /\ arg' = [arg EXCEPT ![p] = r.obs]
          /\ now' = t
  /\ pc' = [pc EXCEPT ![p] = "add_lock"]
  /\ UNCHANGED <<uivars, rbvars, muxvars, getvars, lenres, body, sret, dret, filt,
                 panicked, added, nextVal>>

\* Sample: return true, nil; the deferred resp.Body.Close() and
\* h.mux.Unlock() run
SampleReturnFalse(p) ==
  /\ ~panicked /\ pc[p] = "s_return"
  /\ muxW' = NoOne
  /\ sret' = [who |-> p, val |-> RetSkip]
  /\ gstart' = [gstart EXCEPT ![p] = 0]
  /\ body' = [body EXCEPT ![p] = <<>>]
  /\ pc' = [pc EXCEPT ![p] = "idle"]
  /\ UNCHANGED <<uivars, rbvars, muxR, arg, idx, heap, result, gend, lenres,
                 dret, filt, now, panicked, added, nextVal>>

SampleReturn(p) ==
  /\ ~panicked /\ pc[p] = "s_return"
  /\ muxW' = NoOne
  /\ sret' = [who |-> p, val |-> RetTrue]
  /\ gstart' = [gstart EXCEPT ![p] = 0]
  /\ body' = [body EXCEPT ![p] = <<>>]
  /\ pc' = [pc EXCEPT ![p] = "idle"]
  /\ UNCHANGED <<uivars, rbvars, muxR, arg, idx, heap, result, gend, lenres,
                 dret, filt, now, panicked, added, nextVal>>

\* Dump(f) is called
CallDump(p) ==
  /\ ~panicked /\ p \in Dumpers /\ pc[p] = "idle"
  /\ \E f \in Filters : filt' = [filt EXCEPT ![p] = f]
  /\ dret' = [dret EXCEPT ![p] = NoDump]
  /\ pc' = [pc EXCEPT ![p] = "d_rlock"]
  /\ UNCHANGED <<uivars, rbvars, muxvars, arg, getvars, lenres, body, sret, now,
                 panicked, added, nextVal>>

\* Dump: h.mux.RLock(); h.rb.get() is called
DumpRLock(p) ==
  /\ ~panicked /\ pc[p] = "d_rlock"
  /\ CanRLock
  /\ muxR' = muxR \cup {p}
  /\ gstart' = [gstart EXCEPT ![p] = Completed]
  /\ pc' = [pc EXCEPT ![p] = "get_lock"]
  /\ UNCHANGED <<uivars, rbvars, muxW, arg, idx, heap, result, gend, lenres,
                 storevars, panicked, added, nextVal>>

\* Dump: h.mux.RUnlock()
DumpRUnlock(p) ==
  /\ ~panicked /\ pc[p] = "d_runlock"
  /\ muxR' = muxR \ {p}
  /\ pc' = [pc EXCEPT ![p] = "d_check"]
  /\ UNCHANGED <<uivars, rbvars, muxW, arg, getvars, lenres, storevars, panicked,
                 added, nextVal>>

\* Dump: if len(data) == 0 { return nil, fmt.Errorf("no data points") };
\* otherwise the series of the filtered, sorted names are returned with a nil
\* error. f keeps its value until the next call
DumpReturnRereads(p) ==
  /\ ~panicked /\ pc[p] = "d_check"
  /\ dret' = [dret EXCEPT ![p] = DumpResult(IF result[p].len = 0 THEN <<>>
                                             ELSE [i \in 1 .. count |-> buffer[GetIndex(i - 1)]],
                                            filt[p])]
  /\ heap' = [heap EXCEPT ![p] = <<>>]
  /\ result' = [result EXCEPT ![p] = NoSlice]
  /\ gstart' = [gstart EXCEPT ![p] = 0]
  /\ gend' = [gend EXCEPT ![p] = 0]
  /\ pc' = [pc EXCEPT ![p] = "idle"]
  /\ UNCHANGED <<uivars, rbvars, muxvars, arg, idx, lenres, body, sret, filt, now,
                 panicked, added, nextVal>>
DumpReturn(p) ==
  /\ ~panicked /\ pc[p] = "d_check"
  /\ dret' = [dret EXCEPT ![p] = DumpResult(SliceElems(result[p]), filt[p])]
  /\ heap' = [heap EXCEPT ![p] = <<>>]
  /\ result' = [result EXCEPT ![p] = NoSlice]
  /\ gstart' = [gstart EXCEPT ![p] = 0]
  /\ gend' = [gend EXCEPT ![p] = 0]
  /\ pc' = [pc EXCEPT ![p] = "idle"]
  /\ UNCHANGED <<uivars, rbvars, muxvars, arg, idx, lenres, body, sret, filt, now,
                 panicked, added, nextVal>>

\* ---------------------------------------------------------- terminal UI

\* main: internal.NewStore(3, *endpoint)
HistorySize == 3

\* the goroutine of the sampleCmd that holds h.mux
SampleCmd == "sampleCmd"

\* the kinds of sampledMsg: fetched, neither fetched nor an error, an error
SampledKinds == {"fetched", "skipped", "error"}

\* main: &model{search: *search, ticker: time.NewTicker(*interval), ...};
\* stopped and ready are false, the viewport is empty
NewModel ==
  [search |-> <<>>, stopped |-> FALSE, ready |-> FALSE,
   content |-> [error |-> FALSE, series |-> <<>>],
   ticker |-> [active |-> TRUE, c |-> 0]]

\* tea.NewProgram(m): no message is pending and no command is running
NewProgram ==
  [waiters |-> 0, calling |-> 0, ticks |-> 0,
   sampled |-> [k \in SampledKinds |-> 0], quit |-> FALSE, keys |-> 0]

\* --------------------------------------------------------- specification

InitProcs(zero) ==
  /\ muxW = NoOne /\ muxR = {}
  /\ pc = [p \in Procs |-> "idle"]
  /\ arg = [p \in Procs |-> zero]
  /\ idx = [p \in Procs |-> 0]
  /\ heap = [p \in Procs |-> <<>>]
  /\ result = [p \in Procs |-> NoSlice]
  /\ lenres = [p \in Procs |-> 0]
  /\ body = [p \in Procs |-> <<>>]
  /\ sret = [who |-> NoOne, val |-> NoRet]
  /\ dret = [p \in Procs |-> NoDump]
  /\ filt = [p \in Procs |-> <<>>]
  /\ now = 0
  /\ panicked = FALSE
  /\ added = <<>>
  /\ nextVal = 1
  /\ gstart = [p \in Procs |-> 0]
  /\ gend = [p \in Procs |-> 0]
  /\ ots = <<>>
  /\ derived = NoDerived
  /\ model = NewModel
  /\ prog = NewProgram

\* NewRingBuffer[int](n)
InitRB ==
  /\ \E n \in 0 .. MaxSize :
       LET rb == newRingBuffer(n, 0)
       IN /\ buffer = rb.buffer /\ size = rb.size
          /\ write = rb.write /\ count = rb.count
  /\ mu = NoOne
  /\ InitProcs(0)

RingStep(p) ==
  \/ AddLock(p) \/ AddSlot(p) \/ AddSlotPanic(p) \/ AddWrite(p) \/ AddCount(p)
  \/ GetLock(p) \/ GetLoop(p) \/ GetReturn(p)

NextRB ==
  \E p \in Procs :
    \/ CallAdd(p) \/ CallGet(p) \/ CallLen(p)
    \/ RingStep(p)
    \/ LenLock(p) \/ LenReturn(p)
    \/ Overwrite(p) \/ Reorder(p) \/ Truncate(p) \/ Release(p)

SpecRB == InitRB /\ [][NextRB]_vars

\* NewStore(n, endpoint)
Init ==
  /\ \E n \in 0 .. MaxSize :
       LET rb == newRingBuffer(n, {})
       IN /\ buffer = rb.buffer /\ size = rb.size
          /\ write = rb.write /\ count = rb.count
  /\ mu = NoOne
  /\ InitProcs({})

Next ==
  \/ \E p \in Procs :
       \/ SampleSkip(p) \/ SampleTryLockOK(p)
       \/ SampleRequestErr(p) \/ SampleDoErr(p) \/ SampleBadStatus(p)
       \/ SampleResponse(p) \/ SampleParseErr(p) \/ SampleParseOK(p)
       \/ SampleReturn(p)
       \/ CallDump(p) \/ DumpRLock(p) \/ DumpRUnlock(p) \/ DumpReturn(p)
       \/ RingStep(p)

Spec == Init /\ [][Next]_vars

\* Dump on given buffer contents: a store of capacity MaxSnaps after L Samples,
\* the i-th of which read the clock at i and found the names ks[i], each a
\* counter of value i; a Dump(f) has read the buffer and released the lock
SeriesNames == { <<"A", "1">>, <<"a", "2">>, <<"a", "1", "0">> }
DumpFilters == { <<>>, <<"a", "1">>, <<"A">>, <<"x">> }
SnapshotOf(ns, i) == {NewObservation(n, "Counter", i, Whole(i)) : n \in ns}

InitDump ==
  \E L \in 0 .. MaxSnaps : \E ks \in [1 .. L -> SUBSET SeriesNames] :
  \E f \in DumpFilters : \E d \in Dumpers :
    LET data == [i \in 1 .. L |-> SnapshotOf(ks[i], i)]
    IN /\ size = MaxSnaps
       /\ buffer = [i \in 0 .. MaxSnaps - 1 |-> IF i < L THEN data[i + 1] ELSE {}]
       /\ write = L % MaxSnaps
       /\ count = L
       /\ mu = NoOne /\ muxW = NoOne /\ muxR = {}
       /\ pc = [p \in Procs |-> IF p = d THEN "d_check" ELSE "idle"]
       /\ arg = [p \in Procs |-> {}]
       /\ idx = [p \in Procs |-> 0]
       /\ heap = [p \in Procs |-> IF p = d THEN data ELSE <<>>]
       /\ result = [p \in Procs |-> IF p = d THEN [arr |-> d, len |-> L] ELSE NoSlice]
       /\ lenres = [p \in Procs |-> 0]
       /\ body = [p \in Procs |-> <<>>]
       /\ sret = IF L = 0 THEN [who |-> NoOne, val |-> NoRet]
                 ELSE [who |-> CHOOSE p \in Samplers : TRUE, val |-> RetTrue]
       /\ dret = [p \in Procs |-> NoDump]
       /\ filt = [p \in Procs |-> IF p = d THEN f ELSE <<>>]
       /\ now = L
       /\ panicked = FALSE
       /\ added = data
       /\ nextVal = 1
       /\ gstart = [p \in Procs |-> IF p = d THEN L ELSE 0]
       /\ gend = [p \in Procs |-> IF p = d THEN L ELSE 0]
       /\ ots = <<>>
       /\ derived = NoDerived
       /\ model = NewModel
       /\ prog = NewProgram

NextDump == \E p \in Dumpers : DumpReturn(p)

SpecDump == InitDump /\ [][NextDump]_vars

\* derive on a series as Dump returns them, newest first: one name and kind,
\* a value per observation, the oldest observation at time 0 and each newer
\* one later by one of Elapsed
RateNames == { <<"c">>, flatName(<<"c">>, <<[name |-> <<"l">>, value |-> <<"v">>]>>) }
RateKinds == {"Counter", "Gauge", "HistogramCount"}
RateValues == {Whole(100), Whole(110)}
Elapsed == {0, 1, TicksPerSecond - 1, TicksPerSecond, 10 * TicksPerSecond}

RECURSIVE TimeOf(_, _)
TimeOf(el, i) == IF i > Len(el) THEN 0 ELSE el[i] + TimeOf(el, i + 1)

InitDerive ==
  /\ \E n \in 1 .. MaxObs :
     \E name \in RateNames : \E kind \in RateKinds :
     \E vs \in [1 .. n -> RateValues] : \E el \in [1 .. n - 1 -> Elapsed] :
       ots = [i \in 1 .. n |-> NewObservation(name, kind, TimeOf(el, i), vs[i])]
  /\ derived = NoDerived
  /\ model = NewModel
  /\ prog = NewProgram
  /\ LET rb == newRingBuffer(MaxSize, {})
     IN /\ buffer = rb.buffer /\ size = rb.size
        /\ write = rb.write /\ count = rb.count
  /\ mu = NoOne /\ muxW = NoOne /\ muxR = {}
  /\ pc = [p \in Procs |-> "idle"]
  /\ arg = [p \in Procs |-> {}]
  /\ idx = [p \in Procs |-> 0]
  /\ heap = [p \in Procs |-> <<>>]
  /\ result = [p \in Procs |-> NoSlice]
  /\ lenres = [p \in Procs |-> 0]
  /\ body = [p \in Procs |-> <<>>]
  /\ sret = [who |-> NoOne, val |-> NoRet]
  /\ dret = [p \in Procs |-> NoDump]
  /\ filt = [p \in Procs |-> <<>>]
  /\ now = 0
  /\ panicked = FALSE
  /\ added = <<>>
  /\ nextVal = 1
  /\ gstart = [p \in Procs |-> 0]
  /\ gend = [p \in Procs |-> 0]

NextDerive == DeriveReturn \/ DerivePanic

SpecDerive == InitDerive /\ [][NextDerive]_vars

\* one Sample on each payload of FlatPayloads, from the point where it holds
\* the sampling lock and has the response: the store is new, or holds the
\* snapshot of one earlier Sample, which read the clock at 0
InitFlatten ==
  \E in \in FlatPayloads : \E s \in Samplers :
  \E prior \in {<<>>} \cup {<<newObservationSet(i, 0).obs>> :
                             i \in {j \in FlatPayloads : newObservationSet(j, 0).err = "nil"}} :
    /\ size = MaxSize
    /\ buffer = [i \in 0 .. MaxSize - 1 |-> IF i < Len(prior) THEN prior[i + 1] ELSE {}]
    /\ write = Len(prior) % MaxSize
    /\ count = Len(prior)
    /\ mu = NoOne /\ muxW = s /\ muxR = {}
    /\ pc = [p \in Procs |-> IF p = s THEN "s_parse" ELSE "idle"]
    /\ arg = [p \in Procs |-> {}]
    /\ idx = [p \in Procs |-> 0]
    /\ heap = [p \in Procs |-> <<>>]
    /\ result = [p \in Procs |-> NoSlice]
    /\ lenres = [p \in Procs |-> 0]
    /\ body = [p \in Procs |-> IF p = s THEN in ELSE <<>>]
    /\ sret = [who |-> NoOne, val |-> NoRet]
    /\ dret = [p \in Procs |-> NoDump]
    /\ filt = [p \in Procs |-> <<>>]
    /\ now = 0
    /\ panicked = FALSE
    /\ added = prior
    /\ nextVal = 1
    /\ gstart = [p \in Procs |-> IF p = s THEN Len(prior) ELSE 0]
    /\ gend = [p \in Procs |-> 0]
    /\ ots = <<>>
    /\ derived = NoDerived
    /\ model = NewModel
    /\ prog = NewProgram

NextFlatten ==
  \E p \in Samplers :
    \/ SampleParseErr(p) \/ SampleParseOK(p)
    \/ AddLock(p) \/ AddSlot(p) \/ AddWrite(p) \/ AddCount(p)
    \/ SampleReturn(p)

SpecFlatten == InitFlatten /\ [][NextFlatten]_vars

\* ------------------------------------------------------------ properties

\* what get would return now: rb.count elements, read with get's index
Contents == [i \in 1 .. count |-> buffer[GetIndex(i - 1)]]

InAdd(p) == pc[p] \in {"add_lock", "add_slot", "add_write", "add_count"}
InGet(p) == pc[p] \in {"get_lock", "get_loop"}

\* C1: for every capacity N >= 1, after k add calls len() is min(k, N) and
\* get() returns the last min(k, N) values added, oldest first (so each add
\* past N overwrites the oldest value).
C1_AddGetLen ==
  (size >= 1 /\ mu \notin Writers) =>
    /\ count = Min(Len(added), size)
    /\ Contents = LastN(added, size)
    /\ \A r \in Readers :
         /\ (pc[r] = "got" /\ gend[r] = Len(added))
              => SliceElems(result[r]) = LastN(added, size)
         /\ (pc[r] = "gotlen" /\ gend[r] = Len(added))
              => lenres[r] = Min(Len(added), size)

\* a get returned after more adds than the buffer holds
C1_Witness ==
  /\ size = 2 /\ Len(added) = 3 /\ mu = NoOne
  /\ \E r \in Readers : pc[r] = "got" /\ gend[r] = 3 /\ result[r].len = 2

\* C2: while one Sample holds the sampling lock, every other Sample that
\* starts returns (false, nil) at once, fetching and appending nothing; so at
\* most one Sample is past its TryLock at any time, and of two overlapping
\* Samples exactly one fetches.
C2_SingleFlight ==
  /\ [](Cardinality({p \in Samplers : pc[p] # "idle"}) <= 1)
  /\ [][\A p \in Samplers :
          ((\E q \in Samplers \ {p} : pc[q] # "idle")
            /\ (SampleSkip(p) \/ SampleTryLockOK(p)))
          => /\ sret' = [who |-> p, val |-> RetSkip]
             /\ pc' = pc
             /\ UNCHANGED <<buffer, write, count, added, muxW>>]_vars

\* one Sample is fetching and another has just been turned away
C2_Witness ==
  \E p, q \in Samplers :
    p # q /\ pc[p] = "s_fetch" /\ muxW = p /\ sret = [who |-> q, val |-> RetSkip]

\* C3: a Dump issued while a Sample is in flight is never blocked by it: at
\* its RLock, the lock can be taken at once.
C3_DumpNeverBlocked ==
  \A d \in Dumpers : pc[d] = "d_rlock" => CanRLock

\* C4: Sample returns (false, nil) only because another Sample is in progress
\* when it tries the lock.
C4_SkipOnlyWhenSampling ==
  [][\A p \in Samplers :
       SampleSkip(p) => \E q \in Samplers \ {p} : pc[q] # "idle"]_vars

FetchFails(p) == SampleRequestErr(p) \/ SampleDoErr(p) \/ SampleBadStatus(p)

\* C5: when the fetch fails, Sample returns (false, error), the buffer is
\* what it was before the call, and the sampling lock is released: a later
\* Sample with no concurrent caller acquires it.
C5_FetchError ==
  /\ [][\A p \in Samplers :
          FetchFails(p)
          => /\ sret'.who = p /\ ~sret'.val.fetched /\ sret'.val.err \in FetchErrors
             /\ UNCHANGED <<buffer, write, count, added>>
             /\ Len(added) = gstart[p]
             /\ muxW' = NoOne]_vars
  /\ []((sret.val.err \in FetchErrors /\ \A q \in Procs : pc[q] = "idle")
          => TryLock)

\* a fetch failed on a store that already holds a snapshot
C5_Witness ==
  /\ sret.val.err \in FetchErrors /\ count >= 1
  /\ \A q \in Procs : pc[q] = "idle"

\* C6: when decoding fails at any family, also after earlier families
\* decoded, Sample returns (false, error), appends nothing and releases the
\* lock; no snapshot built from the decoded prefix reaches the buffer.
C6_ParseError ==
  /\ [][\A p \in Samplers :
          /\ SampleParseErr(p)
             => /\ sret' = [who |-> p, val |-> RetErr("parse response")]
                /\ UNCHANGED <<buffer, write, count, added>>
                /\ Len(added) = gstart[p]
                /\ muxW' = NoOne
          /\ SampleParseOK(p) => \A i \in 1 .. Len(body[p]) : body[p][i].ok]_vars
  /\ [](\A i \in 1 .. Len(added) : ~MapHas(added[i], <<"c">>))
  /\ [](\A i \in DOMAIN buffer : ~MapHas(buffer[i], <<"c">>))

\* a parse failed on a store that already holds a snapshot
C6_Witness ==
  /\ sret.val = RetErr("parse response") /\ count >= 1 /\ muxW = NoOne

SampleReturns(p) ==
  SampleSkip(p) \/ FetchFails(p) \/ SampleParseErr(p) \/ SampleReturn(p)

\* C7: Sample returns (true, nil) if and only if that call appended exactly
\* one snapshot; a Sample that returns false leaves the buffer unchanged; and
\* nothing but a Sample that goes on to return true adds a snapshot.
C7_TrueIffAppended ==
  /\ [][\A p \in Samplers :
          /\ SampleReturns(p)
             => /\ sret'.who = p
                /\ UNCHANGED <<buffer, write, count, added>>
                /\ (sret'.val.fetched
                      <=> (pc[p] # "idle" /\ Len(added) = gstart[p] + 1))
                /\ sret'.val.fetched => sret'.val = RetTrue
                /\ ~sret'.val.fetched
                     => (pc[p] # "idle" => Len(added) = gstart[p])
          /\ (pc[p] = "s_return" /\ pc'[p] # "s_return") => SampleReturn(p)]_vars
  /\ [][<<buffer, write, count, added>>' # <<buffer, write, count, added>>
          => \E p \in Samplers : InAdd(p) /\ muxW = p]_vars
  /\ [](\A p \in Samplers :
          pc[p] \in {"add_slot", "add_write", "add_count", "s_return"}
            <=> (pc[p] # "idle" /\ Len(added) = gstart[p] + 1))
  /\ []((size >= 1 /\ mu = NoOne) => Contents = LastN(added, size))

\* a second Sample has returned (true, nil)
C7_Witness ==
  /\ sret.val = RetTrue /\ Len(added) = 2 /\ count = Min(2, size)

\* C8: a ring buffer (and a Store) of capacity 0 is rejected at construction,
\* so no add or get on such a buffer is ever reached.
C8_ZeroCapacityRejected ==
  size = 0 => (~panicked /\ \A p \in Procs : ~InAdd(p) /\ ~InGet(p))

\* C9: every get under concurrent adds returns the buffer's contents at one
\* instant between its invocation and its return: the state after some
\* prefix of the serialized adds, which holds every add that had returned
\* when the get was invoked and no add that began after the get returned.
C9_GetAtomic ==
  \A r \in Readers :
    pc[r] = "got" =>
      \E k \in gstart[r] .. gend[r] :
        SliceElems(result[r]) = LastN(SubSeq(added, 1, k), size)

\* a get of a full buffer returned, having overlapped an add
C9_Witness ==
  \E r \in Readers :
    /\ pc[r] = "got" /\ gstart[r] < gend[r]
    /\ size >= 1 /\ result[r].len = size /\ gend[r] > size

\* C10: get returns a fresh copy: overwriting, reordering or truncating the
\* returned slice changes nothing a later get returns, and adds after the
\* get leave the returned sequence as it was.
C10_GetCopy ==
  [][/\ (\E r \in Readers : Overwrite(r) \/ Reorder(r) \/ Truncate(r))
          => UNCHANGED <<buffer, write, count>>
     /\ \A r \in Readers :
          (pc[r] \in {"got", "used"} /\ pc'[r] = pc[r])
            => SliceElems(result[r])' = SliceElems(result[r])]_vars

\* the caller changed the slice it got, and an add followed that get
C10_Witness ==
  \E r \in Readers :
    /\ pc[r] = "used" /\ heap[r] # <<>>
    /\ Len(added) > gend[r] /\ mu = NoOne /\ count = size

\* C11: snapshots are appended in fetch-completion order: the buffer lists
\* the retained snapshots, oldest to newest, in the order their Sample cycles
\* completed. A snapshot is appended only while every earlier cycle has
\* returned, a cycle returns while its snapshot is the newest one, and the
\* clock readings of the snapshots never decrease along the buffer.
C11_AppendOrder ==
  /\ []((size >= 1 /\ mu = NoOne) => Contents = LastN(added, size))
  /\ [](\A i, j \in 1 .. Len(added) :
          i < j => \A o1 \in added[i], o2 \in added[j] : o1.Time <= o2.Time)
  /\ [][Len(added') > Len(added)
          => \E p \in Samplers :
               /\ pc[p] = "add_lock" /\ added' = Append(added, arg[p])
               /\ \A q \in Samplers \ {p} : pc[q] = "idle"]_vars
  /\ [][\A p \in Samplers :
          SampleReturn(p)
            => /\ Len(added) = gstart[p] + 1
               /\ \A q \in Samplers \ {p} : pc[q] = "idle"]_vars

\* two cycles with different clock readings completed, and both snapshots
\* are retained
C11_Witness ==
  /\ Len(added) = 2 /\ count = 2 /\ sret.val = RetTrue
  /\ \A p \in Samplers : pc[p] = "idle"
  /\ \E o1 \in added[1], o2 \in added[2] : o1.Time < o2.Time

\* C12: an appended value stays as it is until it is evicted: a slot of the
\* buffer changes only in add's store, at rb.write; when the buffer is full
\* that slot holds the oldest value, otherwise it holds none of the retained
\* values; what get would return changes only inside an add; and every get
\* returns each value that was appended before the get was invoked and not
\* evicted when it returned.
C12_ImmutableUntilEvicted ==
  /\ [][\A i \in DOMAIN buffer :
          buffer'[i] # buffer[i]
            => /\ \E p \in Writers : pc[p] = "add_slot" /\ mu = p /\ buffer'[i] = arg[p]
               /\ i = write
               /\ IF count = size THEN buffer[i] = Contents[1]
                  ELSE \A k \in 1 .. count : GetIndex(k - 1) # i]_vars
  /\ [][Contents' # Contents => \E p \in Writers : mu = p /\ InAdd(p)]_vars
  /\ [](\A r \in Readers :
          pc[r] = "got" =>
            \A k \in 1 .. Len(added) :
              (k > gend[r] - size /\ k <= gstart[r])
                => \E i \in 1 .. result[r].len : SliceElems(result[r])[i] = added[k])

\* a get returned a value that the next add evicts: the buffer is full, the
\* value is the oldest, and a writer is about to store over it
C12_Witness ==
  \E r \in Readers, w \in Writers :
    /\ pc[r] = "got" /\ result[r].len = size /\ size = 2
    /\ pc[w] = "add_slot" /\ count = size
    /\ SliceElems(result[r])[1] = buffer[write]

\* C13: Dump on a store in which no Sample has added a snapshot returns the
\* "no data points" error and no result, whatever the filter; and Dump
\* returns that error only if no add had completed when it read the buffer.
C13_EmptyDumpError ==
  [][\A d \in Dumpers :
       (pc[d] = "d_check" /\ pc'[d] = "idle") =>
         /\ Len(added) = 0
              => dret'[d] = [err |-> "no data points", dump |-> <<>>]
         /\ dret'[d].err = "no data points"
              => (gstart[d] = 0 /\ dret'[d].dump = <<>>)]_vars

\* a Dump with a filter returned the error from an empty store
C13_Witness ==
  \E d \in Dumpers :
    /\ pc[d] = "idle" /\ dret[d].err = "no data points"
    /\ filt[d] # <<>> /\ Len(added) = 0 /\ size >= 1

\* c and d are the same character, or the same letter in different cases
UpperCase == <<"A", "B", "C", "D", "E", "F", "G", "H", "I", "J", "K", "L", "M",
               "N", "O", "P", "Q", "R", "S", "T", "U", "V", "W", "X", "Y", "Z">>
LowerCase == <<"a", "b", "c", "d", "e", "f", "g", "h", "i", "j", "k", "l", "m",
               "n", "o", "p", "q", "r", "s", "t", "u", "v", "w", "x", "y", "z">>
SameLetter(c, d) ==
  c = d \/ \E k \in 1 .. 26 : {c, d} = {UpperCase[k], LowerCase[k]}

\* f occurs in name, case ignored
OccursIn(f, name) ==
  \E i \in 0 .. Len(name) - Len(f) : \A j \in 1 .. Len(f) : SameLetter(name[i + j], f[j])

\* the names of the newest element of data that contain f, case ignored
Matching(data, f) == {o.Name : o \in {x \in data[Len(data)] : OccursIn(f, x.Name)}}

\* C17: Dump on a buffer that holds a snapshot, with a filter that no name of
\* the newest snapshot contains, returns an empty result and a nil error; the
\* "no data points" error comes from an empty buffer only.
C17_NoMatchNoError ==
  [][\A d \in Dumpers :
       (pc[d] = "d_check" /\ pc'[d] = "idle") =>
         LET data == SliceElems(result[d])
         IN /\ (Len(data) > 0 /\ Matching(data, filt[d]) = {})
                 => dret'[d] = [err |-> "nil", dump |-> <<>>]
            /\ dret'[d].err = "no data points" => Len(data) = 0]_vars

\* a Dump returned nothing, and no error, from a store that holds a snapshot
\* none of whose names contains the filter
C17_Witness ==
  \E d \in Dumpers :
    /\ pc[d] = "idle" /\ dret[d] = [err |-> "nil", dump |-> <<>>]
    /\ filt[d] # <<>> /\ count >= 1 /\ mu = NoOne
    /\ Matching(Contents, filt[d]) = {}

\* a Dump returned a result
Dumped(d) == pc[d] = "idle" /\ dret[d].err = "nil"

\* the series Dump returned for a name
SeriesOf(d, n) == {dret[d].dump[i] : i \in {j \in 1 .. Len(dret[d].dump) :
                                             dret[d].dump[j][1].Name = n}}

\* C14: for a name that is in every retained snapshot (and passes the
\* filter), Dump returns one series with exactly one observation per
\* snapshot, newest first: its j-th observation is the name's observation in
\* the j-th newest snapshot.
C14_SeriesNewestFirst ==
  \A d \in Dumpers :
    Dumped(d) =>
      \A n \in SeriesNames :
        ((\A i \in 1 .. Len(added) : MapHas(added[i], n)) /\ n \in Matching(added, filt[d]))
          => \E s \in SeriesOf(d, n) :
               /\ SeriesOf(d, n) = {s}
               /\ Len(s) = Len(added)
               /\ \A j \in 1 .. Len(s) :
                    s[j] = NewObservation(n, "Counter", Len(added) - j + 1,
                                          Whole(Len(added) - j + 1))

\* three snapshots with a name valued 1, 2, 3 gave the series 3, 2, 1
C14_Witness ==
  \E d \in Dumpers : \E s \in SeriesOf(d, <<"a", "2">>) :
    /\ Dumped(d) /\ Len(added) = 3
    /\ [j \in 1 .. Len(s) |-> s[j].Value] = <<Whole(3), Whole(2), Whole(1)>>

\* C15: every series Dump returns holds the name's observations from the
\* newest snapshot back to, and not including, the first snapshot that lacks
\* the name, and nothing older.
C15_GapTruncation ==
  \A d \in Dumpers :
    Dumped(d) =>
      \A k \in 1 .. Len(dret[d].dump) :
        LET s == dret[d].dump[k]
            n == s[1].Name
            L == Len(added)
        IN /\ Len(s) >= 1 /\ Len(s) <= L
           /\ \A j \in 1 .. Len(s) :
                MapHas(added[L - j + 1], n) /\ s[j] = MapGet(added[L - j + 1], n)
           /\ Len(s) < L => ~MapHas(added[L - Len(s)], n)

\* a name in the newest and in the oldest of three snapshots, not in the
\* middle one: its series is the newest observation alone
C15_Witness ==
  \E d \in Dumpers : \E s \in SeriesOf(d, <<"a", "2">>) :
    /\ Dumped(d) /\ Len(added) = 3 /\ Len(s) = 1
    /\ MapHas(added[1], <<"a", "2">>) /\ ~MapHas(added[2], <<"a", "2">>)

\* C16: Dump(f) returns a series for exactly the names of the newest snapshot
\* that contain f, case ignored (all its names for the empty f); a name that
\* is in older snapshots only is not in the result.
C16_FilterNewest ==
  \A d \in Dumpers :
    Dumped(d) =>
      /\ {dret[d].dump[k][1].Name : k \in 1 .. Len(dret[d].dump)}
           = Matching(added, filt[d])
      /\ filt[d] = <<>> => \A o \in added[Len(added)] : SeriesOf(d, o.Name) # {}
      /\ \A n \in SeriesNames : ~MapHas(added[Len(added)], n) => SeriesOf(d, n) = {}

\* the filter a1 kept A1 of the newest snapshot, dropped its a2, and left out
\* a10, which the older snapshot has and the newest lacks
C16_Witness ==
  \E d \in Dumpers :
    /\ Dumped(d) /\ Len(added) = 2 /\ filt[d] = <<"a", "1">>
    /\ Len(dret[d].dump) = 1 /\ dret[d].dump[1][1].Name = <<"A", "1">>
    /\ MapHas(added[2], <<"a", "2">>)
    /\ MapHas(added[1], <<"a", "1", "0">>) /\ ~MapHas(added[2], <<"a", "1", "0">>)

\* the number a run of digits stands for
RECURSIVE NumberOf(_)
NumberOf(ds) ==
  IF ds = <<>> THEN 0
  ELSE 10 * NumberOf(SubSeq(ds, 1, Len(ds) - 1)) + (Code(ds[Len(ds)]) - Code("0"))

\* the length of the run of digits s starts with
RECURSIVE DigitRun(_)
DigitRun(s) ==
  IF s = <<>> \/ ~IsDigit(Head(s)) THEN 0 ELSE 1 + DigitRun(Tail(s))

\* the human order of names without leading zeros: runs of digits by the
\* number they stand for, a digit before any other character, other
\* characters by their code, a prefix before its extensions
RECURSIVE HumanLess(_, _)
HumanLess(s, t) ==
  IF t = <<>> THEN FALSE
  ELSE IF s = <<>> THEN TRUE
  ELSE IF IsDigit(Head(s)) /\ IsDigit(Head(t))
  THEN LET a == DigitRun(s)
           b == DigitRun(t)
           x == NumberOf(SubSeq(s, 1, a))
           y == NumberOf(SubSeq(t, 1, b))
       IN IF x # y THEN x < y
          ELSE HumanLess(SubSeq(s, a + 1, Len(s)), SubSeq(t, b + 1, Len(t)))
  ELSE IF IsDigit(Head(s)) # IsDigit(Head(t)) THEN IsDigit(Head(s))
  ELSE IF Head(s) # Head(t) THEN Code(Head(s)) < Code(Head(t))
  ELSE HumanLess(Tail(s), Tail(t))

\* C18: the series of a Dump result are in the natural order of their names,
\* embedded integers compared by value (a2 before a10), and no name occurs
\* twice.
C18_NaturalOrder ==
  \A d \in Dumpers :
    Dumped(d) =>
      \A i, j \in 1 .. Len(dret[d].dump) :
        i < j => HumanLess(dret[d].dump[i][1].Name, dret[d].dump[j][1].Name)

\* A1, a2 and a10 came out in this order
C18_Witness ==
  \E d \in Dumpers :
    /\ Dumped(d)
    /\ [k \in 1 .. Len(dret[d].dump) |-> dret[d].dump[k][1].Name]
         = << <<"A", "1">>, <<"a", "2">>, <<"a", "1", "0">> >>

\* derive was called on ots and has returned or panicked
Derived == derived # NoDerived \/ panicked

\* the time between the i-th observation of ots and the next older one
ElapsedAt(i) == ots[i].Time - ots[i + 1].Time

\* C19: for a series of kind Counter or HistogramCount with n >= 2
\* observations, derive yields the raw series and one more series, of n - 1
\* observations of kind CounterRate, the i-th computed from the i-th and the
\* (i+1)-th observation of the raw series.
C19_RateSeries ==
  (Derived /\ Len(ots) >= 2 /\ ots[1].Kind \in {"Counter", "HistogramCount"})
    => /\ ~panicked
       /\ Len(derived) = 2 /\ derived[1] = ots
       /\ Len(derived[2]) = Len(ots) - 1
       /\ \A i \in 1 .. Len(ots) - 1 :
            /\ derived[2][i].Kind = "CounterRate"
            /\ derived[2][i].Time = ots[i].Time
            /\ derived[2][i] = computeRate(ots[i], ots[i + 1]).obs

\* C20: for an adjacent pair at least one second apart the rate is the newer
\* value minus the older one, divided by the seconds between them (stated as
\* rate * elapsed = delta * one second), and derive returns that rate at the
\* pair's place.
C20_RateOverSeconds ==
  Derived =>
    \A i \in 1 .. Len(ots) - 1 :
      ElapsedAt(i) >= TicksPerSecond =>
        LET r == computeRate(ots[i], ots[i + 1])
        IN /\ ~r.panic
           /\ RatMul(r.obs.Value, Whole(ElapsedAt(i)))
                = RatMul(RatSub(ots[i].Value, ots[i + 1].Value), Whole(TicksPerSecond))
           /\ (derived # NoDerived /\ Len(derived) = 2) => derived[2][i] = r.obs

\* the counter series 110 at 10 s, 100 at 0 s gave one rate, of value 1
C20_Witness ==
  /\ Len(ots) = 2 /\ ots[1].Kind = "Counter"
  /\ ots[1].Value = Whole(110) /\ ots[1].Time = 10 * TicksPerSecond
  /\ ots[2].Value = Whole(100) /\ ots[2].Time = 0
  /\ Len(derived) = 2 /\ Len(derived[2]) = 1 /\ derived[2][1].Value = Whole(1)

\* C21: for an adjacent pair more than zero and less than one second apart,
\* the rate is delta times the ratio of one second to the elapsed time
\* (stated as rate * elapsed = delta * one second).
C21_RateUnderSecond ==
  Derived =>
    \A i \in 1 .. Len(ots) - 1 :
      (ElapsedAt(i) > 0 /\ ElapsedAt(i) < TicksPerSecond) =>
        LET r == computeRate(ots[i], ots[i + 1])
        IN /\ ~r.panic
           /\ RatMul(r.obs.Value, Whole(ElapsedAt(i)))
                = RatMul(RatSub(ots[i].Value, ots[i + 1].Value), Whole(TicksPerSecond))

\* C22: for a series of fewer than two observations, or of a kind other than
\* Counter and HistogramCount, derive returns the raw series alone, and does
\* not fail.
C22_NothingToDerive ==
  (Derived /\ (Len(ots) < 2 \/ ots[1].Kind \notin {"Counter", "HistogramCount"}))
    => (~panicked /\ derived = <<ots>>)

\* derive returned a gauge series of two observations with the same time as
\* it was, and nothing else
C22_Witness ==
  /\ Len(ots) = 2 /\ ots[1].Kind = "Gauge" /\ ElapsedAt(1) = 0
  /\ ots[1].Value # ots[2].Value
  /\ derived = <<ots>> /\ ~panicked

\* C30: derive completes without a run-time failure on every series, whatever
\* the time between adjacent observations, zero included.
C30_DeriveNoFailure ==
  \A i \in 1 .. Len(ots) - 1 : (Derived /\ ElapsedAt(i) >= 0) => ~panicked

\* C27: with writers adding at least capacity values in all and readers
\* calling get meanwhile, every get returns no element or exactly capacity
\* elements; and a get called after the writers have finished returns
\* capacity elements, each a value some writer added.
C27_ConcurrentGetLen ==
  \A r \in Readers :
    (size >= 1 /\ MaxAdds >= size /\ pc[r] = "got") =>
      /\ result[r].len \in {0, size}
      /\ gstart[r] = MaxAdds =>
           /\ result[r].len = size
           /\ \A i \in 1 .. result[r].len : SliceElems(result[r])[i] \in 1 .. MaxAdds

\* a Sample has flattened its response and added the snapshot
Flattened(p) == pc[p] = "s_return" /\ count >= 1

\* the newest snapshot of the buffer
Newest == Contents[count]

\* C23: a payload of one Counter family with one unlabeled instance gives a
\* snapshot of exactly one observation: the bare family name, kind Counter,
\* the counter's value.
C23_CounterFlat ==
  \A p \in Samplers :
    (/\ Flattened(p) /\ Len(body[p]) = 1 /\ body[p][1].mf.type = "COUNTER"
     /\ Len(body[p][1].mf.metric) = 1 /\ body[p][1].mf.metric[1].label = <<>>)
      => /\ Cardinality(Newest) = 1
         /\ \A o \in Newest : /\ o.Name = body[p][1].mf.name
                              /\ o.Kind = "Counter"
                              /\ o.Value = body[p][1].mf.metric[1].value

\* the counter requests_total of value 5 was flattened
C23_Witness ==
  \E p \in Samplers :
    /\ Flattened(p) /\ body[p] = <<FamRequestsTotal>>
    /\ Newest = {[Name |-> RequestsTotal, Kind |-> "Counter", Time |-> now,
                  Value |-> Whole(5)]}

\* requests_bucket {le="<le>"}
BucketNamed(le) == Requests \o <<"_", "b", "u", "c", "k", "e", "t", " ", "{", "l", "e", "=", "\"">> \o le \o <<"\"", "}">>

\* the snapshot holds an observation of this name and value
Holds(snapshot, name, value) == \E o \in snapshot : o.Name = name /\ o.Value = value

\* the observations of the histogram requests other than its last bucket
RequestsFlat(snapshot) ==
  /\ Holds(snapshot, BucketNamed(<<"0", ".", "5">>), Whole(2))
  /\ Holds(snapshot, BucketNamed(<<"1">>), Whole(5))
  /\ Holds(snapshot, Requests \o <<"_", "s", "u", "m">>, Rat(123, 10))
  /\ Holds(snapshot, Requests \o <<"_", "c", "o", "u", "n", "t">>, Whole(7))

\* C24, as claimed: the histogram requests with buckets at 0.5, 1.0 and +Inf,
\* sum 12.3 and count 7 gives requests_bucket {le="0.5"}, {le="1"} and
\* {le="Inf"}, requests_sum and requests_count with their values.
C24_HistogramNames ==
  \A p \in Samplers :
    (Flattened(p) /\ body[p] = <<FamRequests>>)
      => /\ RequestsFlat(Newest)
         /\ Holds(Newest, BucketNamed(<<"I", "n", "f">>), Whole(7))

\* C24, amended: the same, with the last bucket under requests_bucket
\* {le="+Inf"}.
C24_HistogramNamesPlusInf ==
  \A p \in Samplers :
    (Flattened(p) /\ body[p] = <<FamRequests>>)
      => /\ RequestsFlat(Newest)
         /\ Holds(Newest, BucketNamed(<<"+", "I", "n", "f">>), Whole(7))
         /\ ~\E o \in Newest : o.Name = BucketNamed(<<"I", "n", "f">>)

\* the histogram requests was flattened: three buckets, sum, count and average
C24_Witness ==
  \E p \in Samplers :
    /\ Flattened(p) /\ body[p] = <<FamRequests>>
    /\ Cardinality(Newest) = 6
    /\ Cardinality({o \in Newest : o.Kind = "HistogramBucket"}) = 3

IsKnown(f) == f.mf.type \in {"COUNTER", "GAUGE", "HISTOGRAM", "GAUGE_HISTOGRAM", "SUMMARY"}

\* C25: a family of a type other than Counter, Gauge, Histogram,
\* GaugeHistogram and Summary adds no observation and no error: the snapshot
\* is that of the payload without such families, no observation carries such
\* a family's name, and the Sample fails in the parse only on a payload that
\* cannot be decoded.
C25_UnknownIgnored ==
  /\ [](\A p \in Samplers :
          Flattened(p) =>
            LET known == SelectSeq(body[p], IsKnown)
            IN /\ Newest = flatten([i \in 1 .. Len(known) |-> known[i].mf], now)
               /\ \A i \in 1 .. Len(body[p]) :
                    ~IsKnown(body[p][i])
                      => ~\E o \in Newest :
                            SubSeq(o.Name, 1, Len(body[p][i].mf.name)) = body[p][i].mf.name)
  /\ [][\A p \in Samplers :
          (pc[p] = "s_parse" /\ pc'[p] = "idle")
            => \E i \in 1 .. Len(body[p]) : ~body[p][i].ok]_vars

\* a payload with an untyped family between a counter and a gauge gave the
\* counter and the gauge
C25_Witness ==
  \E p \in Samplers :
    /\ Flattened(p) /\ body[p] = <<FamRequestsTotal, FamU, FamB>>
    /\ {o.Name : o \in Newest} = {RequestsTotal, <<"b">>}

\* C26: a name has the same kind in every snapshot of the buffer that holds
\* it.
C26_KindStable ==
  mu = NoOne =>
    \A i, j \in 1 .. count : \A o1 \in Contents[i], o2 \in Contents[j] :
      o1.Name = o2.Name => o1.Kind = o2.Kind

\* C28: instances of one decode pass that map to the same flat name leave one
\* observation under it, that of the instance processed last, and no error:
\* x_sum after the histogram x is the counter, before it the histogram's sum,
\* and of two instances with the same labels the second stays.
C28_LastWriteWins ==
  \A p \in Samplers :
    Flattened(p) =>
      /\ \A o1, o2 \in Newest : o1.Name = o2.Name => o1 = o2
      /\ body[p] = <<FamX, FamXSum>>
           => \E o \in Newest : /\ o.Name = <<"x", "_", "s", "u", "m">>
                                /\ o.Kind = "Counter" /\ o.Value = Whole(9)
      /\ body[p] = <<FamXSum, FamX>>
           => \E o \in Newest : /\ o.Name = <<"x", "_", "s", "u", "m">>
                                /\ o.Kind = "HistogramSum" /\ o.Value = Whole(3)
      /\ body[p] = <<FamG>>
           => \A o \in Newest : o.Kind = "Gauge" /\ o.Value = Whole(2)

\* the histogram x and then the counter x_sum were flattened: x_sum, x_count
\* and x_avg
C28_Witness ==
  \E p \in Samplers :
    /\ Flattened(p) /\ body[p] = <<FamX, FamXSum>>
    /\ Cardinality(Newest) = 3
    /\ \E o \in Newest : o.Kind = "Counter"

\* the fractional count if positive, else the integer count
Preferred(f, n) == IF f.num > 0 THEN f ELSE Whole(n)

\* C29: for a histogram instance each bucket's value and the _count value are
\* the fractional count when positive and the integer count otherwise, and
\* the _avg observation, of value sum / count, is there exactly when that
\* count value is positive.
C29_HistogramCounts ==
  \A p \in Samplers :
    (/\ Flattened(p) /\ Len(body[p]) = 1
     /\ body[p][1].mf.type \in {"HISTOGRAM", "GAUGE_HISTOGRAM"}
     /\ Len(body[p][1].mf.metric) = 1)
      => LET m == body[p][1].mf.metric[1]
             cnt == Preferred(m.cntf, m.cnt)
             buckets == {o \in Newest : o.Kind = "HistogramBucket"}
             avgs == {o \in Newest : o.Kind = "HistogramAvg"}
         IN /\ {o.Value : o \in {x \in Newest : x.Kind = "HistogramCount"}} = {cnt}
            /\ Cardinality(buckets) = Len(m.bucket)
            /\ {o.Value : o \in buckets}
                 = {Preferred(m.bucket[i].cumf, m.bucket[i].cum) : i \in 1 .. Len(m.bucket)}
            /\ (avgs # {}) <=> (cnt.num > 0)
            /\ \A o \in avgs : RatMul(o.Value, cnt) = m.sum

\* a histogram with fractional counts was flattened: count 2.5, average 2, a
\* bucket of 1.5 and one that fell back to the integer 9
C29_Witness ==
  \E p \in Samplers :
    /\ Flattened(p) /\ body[p] = <<FamHF>>
    /\ \E o \in Newest : o.Kind = "HistogramCount" /\ o.Value = Rat(5, 2)
    /\ \E o \in Newest : o.Kind = "HistogramAvg" /\ o.Value = Whole(2)
    /\ {o.Value : o \in {x \in Newest : x.Kind = "HistogramBucket"}} = {Rat(3, 2), Whole(9)}

\* C31: in a buffer constructed with size >= 1, 0 <= count <= size and
\* 0 <= write < size in every state, and count never decreases; between two
\* adds, write equals count while count < size, and once count = size write
\* is the index get starts from, which holds the oldest of the last size
\* values added.
C31_RingInvariant ==
  /\ [](size >= 1 =>
          /\ count \in 0 .. size
          /\ write \in 0 .. size - 1
          /\ mu \notin Writers =>
               /\ count < size => write = count
               /\ count = size => /\ write = GetIndex(0)
                                  /\ buffer[write] = LastN(added, size)[1])
  /\ [][size >= 1 => count' >= count]_vars

\* a buffer of two that took three adds: the write index wrapped twice and
\* points at the second value added
C31_Witness ==
  /\ size = 2 /\ count = 2 /\ Len(added) = 3 /\ mu = NoOne
  /\ write = 1 /\ buffer[write] = added[2]

\* C32: every series of a Dump result is non-empty, starts with an
\* observation of the snapshot that was the newest when Dump read the buffer,
\* continues with observations of the snapshots before it in order, and is no
\* longer than the number of snapshots the buffer held at that read, whatever
\* a Sample appended since.
C32_DumpOneRead ==
  [][\A d \in Dumpers :
       (pc[d] = "d_check" /\ pc'[d] = "idle" /\ dret'[d].err = "nil")
         => \A i \in 1 .. Len(dret'[d].dump) :
              LET s == dret'[d].dump[i]
              IN /\ Len(s) >= 1
                 /\ Len(s) <= Min(gend[d], size)
                 /\ \A j \in 1 .. Len(s) : s[j] \in added[gend[d] - j + 1]]_vars

\* a Dump has read the buffer and not yet built its result, and a Sample has
\* since appended a snapshot with other names
C32_Witness ==
  \E d \in Dumpers :
    /\ pc[d] = "d_check" /\ result[d].len >= 1
    /\ gend[d] < Len(added) /\ mu = NoOne /\ count = Len(added)
    /\ DumpResult(SliceElems(result[d]), filt[d]).dump # <<>>
    /\ \A o \in added[gend[d]] : ~MapHas(Contents[count], o.Name)

\* C33: the number of snapshots a store holds never decreases, and a Dump
\* that takes its read lock after a Sample has appended a snapshot does not
\* return the error of the empty history.
C33_HistoryNeverShrinks ==
  /\ [][count' >= count]_vars
  /\ [][\A d \in Dumpers :
          (pc[d] = "d_check" /\ pc'[d] = "idle" /\ gstart[d] >= 1)
            => dret'[d].err = "nil"]_vars

\* a Dump returned a result from a full buffer that has evicted a snapshot
C33_Witness ==
  \E d \in Dumpers :
    /\ Dumped(d) /\ sret.val = RetTrue
    /\ size >= 1 /\ count = size /\ Len(added) > size /\ mu = NoOne

\* ------------------------------------------------- the UI's event loop

\* what the event loop and its commands leave alone
procvars == <<pc, arg, getvars, lenres, body, sret, dret, filt, nextVal, ots, derived>>

\* m.ticker.Stop(): no further tick is sent. A tick that is already in the
\* channel stays there or is discarded, depending on the Go release the
\* program is built with
TickerStop(t) == {[active |-> FALSE, c |-> k] : k \in {0, t.c}}

\* m.ticker.Reset(m.interval): ticks are sent again; a tick already in the
\* channel as for Stop
TickerReset(t) == {[active |-> TRUE, c |-> k] : k \in {0, t.c}}

\* metricsView: Dump(m.search), derive on every series of the dump, and the
\* series that are rendered into the viewport; or the panic of a derive
metricsView(data, search) ==
  LET d == DumpResult(data, search)
      ds == [i \in 1 .. Len(d.dump) |-> derive(d.dump[i])]
  IN IF \E i \in 1 .. Len(ds) : ds[i].panic THEN [panic |-> TRUE]
     ELSE [panic |-> FALSE,
           content |-> [error |-> FALSE,
                        series |-> [i \in 1 .. Len(ds) |-> ds[i].derived]]]

\* the viewport's content after a sampledMsg with an error
ErrorContent == [error |-> TRUE, series |-> <<>>]

\* what the endpoint answers to the UI's Samples when they succeed
UIPayloads == { <<FamA, FamB, FamU>> }

\* the ticker's period has passed: a tick is sent to t.C unless one is there
TickFire ==
  /\ ~panicked /\ ~prog.quit
  /\ model.ticker.active /\ model.ticker.c = 0
  /\ model' = [model EXCEPT !.ticker.c = 1]
  /\ UNCHANGED <<prog, procvars, rbvars, muxvars, now, panicked, added>>

\* sleepCmd: return tickMsg(<-t.C); the message is sent to the event loop
SleepReturn ==
  /\ ~panicked /\ ~prog.quit
  /\ prog.waiters > 0 /\ model.ticker.c = 1
  /\ model' = [model EXCEPT !.ticker.c = 0]
  /\ prog' = [prog EXCEPT !.waiters = @ - 1, !.ticks = @ + 1]
  /\ UNCHANGED <<procvars, rbvars, muxvars, now, panicked, added>>

\* Update, case tickMsg: m.ticker.Stop(); sampleCmd(m.data) is returned
UpdateTick ==
  /\ ~panicked /\ ~prog.quit
  /\ prog.ticks > 0
  /\ \E t \in TickerStop(model.ticker) : model' = [model EXCEPT !.ticker = t]
  /\ prog' = [prog EXCEPT !.ticks = @ - 1, !.calling = @ + 1]
  /\ UNCHANGED <<procvars, rbvars, muxvars, now, panicked, added>>

\* sampleCmd: ts.Sample() finds h.mux taken and returns (false, nil); the
\* command returns sampledMsg{}
CmdSkip ==
  /\ ~panicked /\ ~prog.quit
  /\ prog.calling > 0 /\ ~TryLock
  /\ prog' = [prog EXCEPT !.calling = @ - 1, !.sampled["skipped"] = @ + 1]
  /\ UNCHANGED <<model, procvars, rbvars, muxvars, now, panicked, added>>

\* sampleCmd: ts.Sample() takes h.mux and sends its request
CmdTryLockOK ==
  /\ ~panicked /\ ~prog.quit
  /\ prog.calling > 0 /\ TryLock
  /\ muxW' = SampleCmd
  /\ prog' = [prog EXCEPT !.calling = @ - 1]
  /\ UNCHANGED <<model, procvars, rbvars, muxR, now, panicked, added>>

\* sampleCmd: ts.Sample() fails in the request, the status or the parse and
\* releases h.mux; the command returns sampledMsg{error: err}
CmdError ==
  /\ ~panicked /\ ~prog.quit
  /\ muxW = SampleCmd
  /\ muxW' = NoOne
  /\ prog' = [prog EXCEPT !.sampled["error"] = @ + 1]
  /\ UNCHANGED <<model, procvars, rbvars, muxR, now, panicked, added>>

\* sampleCmd: ts.Sample() parses the response at a clock reading later than
\* the last one (the Samples are an HTTP round trip apart), adds the snapshot
\* and releases h.mux; the command returns sampledMsg{fetched: true}
CmdFetched ==
  /\ ~panicked /\ ~prog.quit
  /\ muxW = SampleCmd /\ mu = NoOne
  /\ Len(added) < MaxSamples
  /\ \E in \in UIPayloads : \E t \in now + 1 .. MaxTime :
       LET r == newObservationSet(in, t)
       IN /\ r.err = "nil"
          /\ buffer' = [buffer EXCEPT ![write] = r.obs]
          /\ added' = Append(added, r.obs)
          /\ now' = t
  /\ write' = NextWrite(write, size)
  /\ count' = IF count < size THEN count + 1 ELSE count
  /\ muxW' = NoOne
  /\ prog' = [prog EXCEPT !.sampled["fetched"] = @ + 1]
  /\ UNCHANGED <<model, procvars, size, mu, muxR, panicked>>

\* Update, case sampledMsg: the error or, if fetched, metricsView() (whose
\* Dump waits for h.mux); then, unless stopped, m.ticker.Reset(m.interval)
\* and sleepCmd(m.ticker) is returned
UpdateSampledRearmOnFetched ==
  /\ ~panicked /\ ~prog.quit
  /\ \E k \in SampledKinds :
       /\ prog.sampled[k] > 0
       /\ k = "fetched" => CanRLock
       /\ LET v == metricsView(Contents, model.search)
              rearm == ~model.stopped /\ k = "fetched"
          IN IF k = "fetched" /\ v.panic
             THEN panicked' = TRUE /\ UNCHANGED <<model, prog>>
             ELSE /\ panicked' = panicked
                  /\ \E t \in (IF rearm THEN TickerReset(model.ticker)
                               ELSE {model.ticker}) :
                       model' = [model EXCEPT
                                   !.ticker = t,
                                   !.content = CASE k = "error" -> ErrorContent
                                                 [] k = "fetched" -> v.content
                                                 [] OTHER -> @]
                  /\ prog' = [prog EXCEPT !.sampled[k] = @ - 1,
                                          !.waiters = IF rearm THEN @ + 1 ELSE @]
  /\ UNCHANGED <<procvars, rbvars, muxvars, now, added>>
UpdateSampled ==
  /\ ~panicked /\ ~prog.quit
  /\ \E k \in SampledKinds :
       /\ prog.sampled[k] > 0
       /\ k = "fetched" => CanRLock
       /\ LET v == metricsView(Contents, model.search)
              rearm == ~model.stopped
          IN IF k = "fetched" /\ v.panic
             THEN panicked' = TRUE /\ UNCHANGED <<model, prog>>
             ELSE /\ panicked' = panicked
                  /\ \E t \in (IF rearm THEN TickerReset(model.ticker)
                               ELSE {model.ticker}) :
                       model' = [model EXCEPT
                                   !.ticker = t,
                                   !.content = CASE k = "error" -> ErrorContent
                                                 [] k = "fetched" -> v.content
                                                 [] OTHER -> @]
                  /\ prog' = [prog EXCEPT !.sampled[k] = @ - 1,
                                          !.waiters = IF rearm THEN @ + 1 ELSE @]
  /\ UNCHANGED <<procvars, rbvars, muxvars, now, added>>

\* Update, case tea.WindowSizeMsg: the first one creates the viewport, calls
\* metricsView() and sets ready; later ones change the viewport's size only
UpdateWindowSize ==
  /\ ~panicked /\ ~prog.quit
  /\ ~model.ready => CanRLock
  /\ LET v == metricsView(Contents, model.search)
     IN IF model.ready THEN UNCHANGED <<model, panicked>>
        ELSE IF v.panic THEN panicked' = TRUE /\ UNCHANGED model
        ELSE /\ model' = [model EXCEPT !.content = v.content, !.ready = TRUE]
             /\ panicked' = panicked
  /\ UNCHANGED <<prog, procvars, rbvars, muxvars, now, added>>

\* Update, case ctrl+c: tea.Quit
KeyCtrlC ==
  /\ ~panicked /\ ~prog.quit
  /\ prog' = [prog EXCEPT !.quit = TRUE]
  /\ UNCHANGED <<model, procvars, rbvars, muxvars, now, panicked, added>>

\* Update, case ctrl+r: m.ticker.Stop(); sampleCmd(m.data) is returned
KeyCtrlR ==
  /\ ~panicked /\ ~prog.quit
  /\ prog.keys < MaxKeys
  /\ \E t \in TickerStop(model.ticker) : model' = [model EXCEPT !.ticker = t]
  /\ prog' = [prog EXCEPT !.keys = @ + 1, !.calling = @ + 1]
  /\ UNCHANGED <<procvars, rbvars, muxvars, now, panicked, added>>

\* Update, case ctrl+p: if stopped, sampleCmd(m.data) is returned, otherwise
\* m.ticker.Stop(); m.stopped = !m.stopped
KeyCtrlP ==
  /\ ~panicked /\ ~prog.quit
  /\ prog.keys < MaxKeys
  /\ \E t \in (IF model.stopped THEN {model.ticker} ELSE TickerStop(model.ticker)) :
       model' = [model EXCEPT !.ticker = t, !.stopped = ~@]
  /\ prog' = [prog EXCEPT !.keys = @ + 1,
                          !.calling = IF model.stopped THEN @ + 1 ELSE @]
  /\ UNCHANGED <<procvars, rbvars, muxvars, now, panicked, added>>

\* the letters typed into the search
SearchRunes == {"a"}

\* Update, cases KeyBackspace and KeyRunes: m.search loses its last character
\* or gains the letter typed; metricsView()
KeySearch ==
  /\ ~panicked /\ ~prog.quit
  /\ prog.keys < MaxKeys
  /\ CanRLock
  /\ \E f \in {IF Len(model.search) > 0
               THEN SubSeq(model.search, 1, Len(model.search) - 1)
               ELSE model.search}
              \cup {Append(model.search, r) : r \in SearchRunes} :
       LET v == metricsView(Contents, f)
       IN IF v.panic THEN panicked' = TRUE /\ UNCHANGED <<model, prog>>
          ELSE /\ model' = [model EXCEPT !.search = f, !.content = v.content]
               /\ prog' = [prog EXCEPT !.keys = @ + 1]
               /\ panicked' = panicked
  /\ UNCHANGED <<procvars, rbvars, muxvars, now, added>>

\* main: the store of HistorySize snapshots has taken the initial Sample
\* without an error, the model is constructed and the program runs: the
\* sleepCmd of Init waits for the ticker
InitUI ==
  \E in \in UIPayloads :
    LET rb == newRingBuffer(HistorySize, {})
        obs == newObservationSet(in, 0).obs
    IN /\ size = rb.size
       /\ buffer = [rb.buffer EXCEPT ![rb.write] = obs]
       /\ write = NextWrite(rb.write, rb.size)
       /\ count = rb.count + 1
       /\ mu = NoOne /\ muxW = NoOne /\ muxR = {}
       /\ pc = [p \in Procs |-> "idle"]
       /\ arg = [p \in Procs |-> {}]
       /\ idx = [p \in Procs |-> 0]
       /\ heap = [p \in Procs |-> <<>>]
       /\ result = [p \in Procs |-> NoSlice]
       /\ lenres = [p \in Procs |-> 0]
       /\ body = [p \in Procs |-> <<>>]
       /\ sret = [who |-> NoOne, val |-> NoRet]
       /\ dret = [p \in Procs |-> NoDump]
       /\ filt = [p \in Procs |-> <<>>]
       /\ now = 0
       /\ panicked = FALSE
       /\ added = <<obs>>
       /\ nextVal = 1
       /\ gstart = [p \in Procs |-> 0]
       /\ gend = [p \in Procs |-> 0]
       /\ ots = <<>>
       /\ derived = NoDerived
       /\ model = NewModel
       /\ prog = [NewProgram EXCEPT !.waiters = 1]

NextUI ==
  \/ TickFire \/ SleepReturn
  \/ UpdateTick \/ UpdateSampled \/ UpdateWindowSize
  \/ KeyCtrlC \/ KeyCtrlR \/ KeyCtrlP \/ KeySearch
  \/ CmdSkip \/ CmdTryLockOK \/ CmdError \/ CmdFetched

SpecUI == InitUI /\ [][NextUI]_vars

\* Update can handle a sampledMsg: one is pending and, if it is one of a
\* fetch, h.mux is free for metricsView's Dump
SampledPending ==
  /\ ~panicked /\ ~prog.quit
  /\ \E k \in SampledKinds : prog.sampled[k] > 0 /\ (k = "fetched" => CanRLock)

\* the ticker fires every interval, the goroutines of the commands run, every
\* Sample returns and the event loop handles the messages it is sent (for
\* the sampledMsg, weak fairness with the enabling condition written out)
SpecUIFair ==
  /\ SpecUI
  /\ WF_vars(TickFire) /\ WF_vars(SleepReturn)
  /\ WF_vars(UpdateTick)
  /\ ([]<>~SampledPending \/ []<><<UpdateSampled>>_vars)
  /\ WF_vars(CmdSkip \/ CmdTryLockOK) /\ WF_vars(CmdError \/ CmdFetched)

\* C34: while the model is stopped, the event loop issues a sampleCmd only in
\* handling a key (ctrl+r, or the ctrl+p that ends the pause), never in
\* handling a tickMsg.
C34_PausedNoTickSample ==
  [][(model.stopped /\ prog'.calling > prog.calling) => prog'.keys > prog.keys]_vars

====
